---- MODULE Spec2Model ----
(***************************************************************************)
(* Model of the investment scorer (utils/scoreCalculator.ts) and of the    *)
(* pages that call it (SearchPage, App, MetroAreaAnalysisPage), of the     *)
(* cash-flow calculator (components/CashFlowCalculator.tsx), of the        *)
(* localStorage cache (utils/cache.ts), of the watchlist handlers of App   *)
(* and SearchPage, of the scrape-listings function, of the search history  *)
(* and of the hooks useZipCodeLookup, useListingCounts and the per-ZIP     *)
(* fetch hooks (useZipFMRData, useCensusData, useHUDData).                 *)
(*                                                                         *)
(* JavaScript numbers are modelled exactly: the integers the program       *)
(* handles are TLA+ integers, the fractional intermediate values (weights, *)
(* weighted sums) are reduced rationals <<numerator, denominator>>, and    *)
(* NaN is a distinguished value every comparison with which is false.      *)
(* The calculator's dollar amounts are binary fixed-point numbers          *)
(* <<hi, lo>> of value hi + lo / 2^20, which hold every candidate price    *)
(* of its bisection exactly.  JavaScript values whose type matters         *)
(* (undefined / number / string) are tagged records.                       *)
(***************************************************************************)
EXTENDS Integers, Sequences, FiniteSets, TLC

VARIABLES
    args,               \* argument list of the call of calculateInvestmentScore
    ret,                \* what that call returned (Pending before the call)
    currentZipCode,     \* page state: the ZIP being analysed
    fmrData,            \* hook state: useHUDData / useZipFMRData .data
    crimeData,          \* hook state: useCrimeData .data
    censusData,         \* hook state: useCensusData .data
    location,           \* hook state: useZipCodeLookup .location
    investmentMetrics,  \* per page: the memoised investmentMetrics
    inputs,             \* CashFlowCalculator: the nine assumptions and the fmrRent prop
    results,            \* CashFlowCalculator: the six calculated results
    search,             \* calculateMaxPrice: position and locals of a running call
    isOpen,             \* CashFlowCalculator: the isOpen prop
    effectDue,          \* CashFlowCalculator: a dependency of the effect changed
    localStorage,       \* browser storage: the text stored under each cache key
    now,                \* Date.now(), in days
    got,                \* the last getCachedData call: its key and what it returned
    savedSearches,      \* the saved_searches list both pages keep in localStorage
    removeClick,        \* the last trash-icon click: page, id and the list before it
    event,              \* scrape-listings: the HandlerEvent
    fetched,            \* scrape-listings: what fetch does when the handler calls it
    response,           \* scrape-listings: what the handler returned
    lookups,            \* useZipCodeLookup: requests in flight and its last step
    searchHistory,      \* the search_history list both pages keep in localStorage
    lastSearch,         \* the last handleSearch call: its ZIP and the list before it
    searches,           \* how many searches were made
    listings,           \* useListingCounts: the hook's state, its runs and calls in flight
    zipHook             \* a per-ZIP fetch hook: its state and its requests in flight

scorerVars == <<args, ret>>
pageVars == <<currentZipCode, fmrData, crimeData, censusData, location, investmentMetrics>>
calcVars == <<inputs, results, search, isOpen, effectDue>>
cacheVars == <<localStorage, now, got>>
watchVars == <<savedSearches, removeClick>>
scrapeVars == <<event, fetched, response>>
historyVars == <<searchHistory, lastSearch, searches>>
hookVars == <<lookups, historyVars, listings, zipHook>>
restVars == <<calcVars, cacheVars, watchVars, scrapeVars, hookVars>>
otherThanCalc == <<scorerVars, pageVars, cacheVars, watchVars, scrapeVars, hookVars>>
otherThanCache == <<scorerVars, pageVars, calcVars, watchVars, scrapeVars, hookVars>>
otherThanWatch == <<scorerVars, pageVars, calcVars, cacheVars, scrapeVars, hookVars>>
otherThanScrape == <<scorerVars, pageVars, calcVars, cacheVars, watchVars, hookVars>>
vars == <<args, ret, currentZipCode, fmrData, crimeData, censusData, location, investmentMetrics,
          inputs, results, search, isOpen, effectDue, localStorage, now, got,
          savedSearches, removeClick, event, fetched, response, lookups,
          searchHistory, lastSearch, searches, listings, zipHook>>

----------------------------------------------------------------------------
(* JavaScript values *)

NaN == -999999999

Null == [t |-> "null"]
Pending == [t |-> "pending"]
Undefined == [t |-> "undefined"]
Num(n) == [t |-> "number", n |-> n]
Str(s) == [t |-> "string", s |-> s]

\* ToBoolean of a tagged value: undefined, null, 0, NaN and "" are falsy
Truthy(v) ==
    CASE v.t = "undefined" -> FALSE
      [] v.t = "number" -> v.n # 0 /\ v.n # NaN
      [] v.t = "string" -> Len(v.s) > 0
      [] v.t = "null" -> FALSE

\* the value read without the "|| 0" fallback
OrZeroMissing(v) == IF v.t = "number" THEN v.n ELSE NaN

\* x || 0 on a number-or-undefined value
OrZero(v) == IF Truthy(v) THEN v.n ELSE 0

DigitVal ==
    [c \in {"0", "1", "2", "3", "4", "5", "6", "7", "8", "9"} |->
        CASE c = "0" -> 0 [] c = "1" -> 1 [] c = "2" -> 2 [] c = "3" -> 3
          [] c = "4" -> 4 [] c = "5" -> 5 [] c = "6" -> 6 [] c = "7" -> 7
          [] c = "8" -> 8 [] c = "9" -> 9]

IsDigit(c) == c \in DOMAIN DigitVal

RECURSIVE SkipWhitespace(_)
SkipWhitespace(s) ==
    IF Len(s) > 0 /\ Head(s) = " " THEN SkipWhitespace(Tail(s)) ELSE s

\* value of the longest prefix of digits of s, continuing from acc
RECURSIVE ReadDigits(_, _)
ReadDigits(s, acc) ==
    IF Len(s) > 0 /\ IsDigit(Head(s))
    THEN ReadDigits(Tail(s), 10 * acc + DigitVal[Head(s)])
    ELSE acc

\* parseInt(string): leading blanks, an optional sign, then decimal digits up
\* to the first other character; NaN when there is no digit
ParseIntStr(s) ==
    LET t == SkipWhitespace(s)
        neg == Len(t) > 0 /\ Head(t) = "-"
        u == IF Len(t) > 0 /\ Head(t) \in {"-", "+"} THEN Tail(t) ELSE t
    IN  IF Len(u) > 0 /\ IsDigit(Head(u))
        THEN (IF neg THEN 0 - ReadDigits(u, 0) ELSE ReadDigits(u, 0))
        ELSE NaN

\* parseInt of a tagged value (an integer number prints as its digits)
parseInt(v) ==
    CASE v.t = "string" -> ParseIntStr(v.s)
      [] v.t = "number" -> v.n
      [] v.t = "undefined" -> NaN

----------------------------------------------------------------------------
(* Exact arithmetic on reduced rationals <<n, d>>, d > 0 *)

Abs(x) == IF x < 0 THEN 0 - x ELSE x

RECURSIVE GCD(_, _)
GCD(a, b) == IF b = 0 THEN a ELSE GCD(b, a % b)

Rat(n, d) ==
    LET g == GCD(Abs(n), Abs(d))
        sn == IF d < 0 THEN 0 - n ELSE n
    IN  <<sn \div g, Abs(d) \div g>>

RatAdd(a, b) == Rat(a[1] * b[2] + b[1] * a[2], a[2] * b[2])
RatMul(a, b) == Rat(a[1] * b[1], a[2] * b[2])
RatDiv(a, b) == Rat(a[1] * b[2], a[2] * b[1])
RatInt(n) == <<n, 1>>
RatGeq(a, b) == a[1] * b[2] >= b[1] * a[2]
RatLeq(a, b) == a[1] * b[2] <= b[1] * a[2]

\* Math.round: the nearest integer, halves rounded up
MathRound(a) == (2 * a[1] + a[2]) \div (2 * a[2])

----------------------------------------------------------------------------
(* utils/scoreCalculator.ts *)

NATIONAL_VIOLENT_RATE == 380
NATIONAL_PROPERTY_RATE == 1958
DefaultPopulationDensity == 1000

\* Array.prototype.find: the first item whose zip_code is z, else undefined
FindZip(items, z) ==
    LET hits == {i \in 1..Len(items) : items[i].zip_code = z}
    IN  IF hits = {} THEN Undefined
        ELSE items[CHOOSE i \in hits : \A j \in hits : i <= j]

\* the 3BR rent calculateInvestmentScore resolves from a non-null fmrData
threeBedroomRent(fmr) ==
    LET fromFmr3 == OrZero(fmr.data.fmr_3)
        basicdata == fmr.data.basicdata
    IN  IF fromFmr3 = 0 /\ basicdata.t = "array"
        THEN LET zipData == FindZip(basicdata.items, fmr.zip_code)
             IN  IF zipData # Undefined /\ Truthy(zipData.ThreeBedroom)
                 THEN parseInt(zipData.ThreeBedroom)
                 ELSE fromFmr3
        ELSE IF fromFmr3 = 0 /\ basicdata.t = "object"
        THEN LET value == basicdata.ThreeBedroom
             IN  IF Truthy(value)
                 THEN (IF value.t = "string" THEN parseInt(value) ELSE value.n)
                 ELSE fromFmr3
        ELSE fromFmr3

\* strict comparison at the 2% breakpoint
calculateFMRScoreStrict(monthlyRent, homePrice) ==
    IF homePrice = 0 THEN 50
    ELSE IF monthlyRent = NaN \/ homePrice = NaN THEN 25
    ELSE LET monthlyRatio == Rat(monthlyRent, homePrice)
         IN  IF ~RatLeq(monthlyRatio, Rat(2, 100)) THEN 100
             ELSE IF RatGeq(monthlyRatio, Rat(15, 1000)) THEN 75
             ELSE IF RatGeq(monthlyRatio, Rat(1, 100)) THEN 50
             ELSE 25

calculateFMRScore(monthlyRent, homePrice) ==
    IF homePrice = 0 THEN 50
    ELSE IF monthlyRent = NaN \/ homePrice = NaN THEN 25
    ELSE LET monthlyRatio == Rat(monthlyRent, homePrice)
         IN  IF RatGeq(monthlyRatio, Rat(2, 100)) THEN 100
             ELSE IF RatGeq(monthlyRatio, Rat(15, 1000)) THEN 75
             ELSE IF RatGeq(monthlyRatio, Rat(1, 100)) THEN 50
             ELSE 25

\* strict comparison at every breakpoint
crimeRateTo10ScaleStrict(rate, nationalAverage) ==
    LET ratio == Rat(rate, nationalAverage)
    IN  IF ~RatGeq(ratio, Rat(3, 10)) THEN 1
        ELSE IF ~RatGeq(ratio, Rat(5, 10)) THEN 2
        ELSE IF ~RatGeq(ratio, Rat(7, 10)) THEN 3
        ELSE IF ~RatGeq(ratio, Rat(9, 10)) THEN 4
        ELSE IF ~RatGeq(ratio, Rat(11, 10)) THEN 5
        ELSE IF ~RatGeq(ratio, Rat(13, 10)) THEN 6
        ELSE IF ~RatGeq(ratio, Rat(15, 10)) THEN 7
        ELSE IF ~RatGeq(ratio, Rat(18, 10)) THEN 8
        ELSE IF ~RatGeq(ratio, Rat(22, 10)) THEN 9
        ELSE 10

crimeRateTo10Scale(rate, nationalAverage) ==
    LET ratio == Rat(rate, nationalAverage)
    IN  IF RatLeq(ratio, Rat(3, 10)) THEN 1
        ELSE IF RatLeq(ratio, Rat(5, 10)) THEN 2
        ELSE IF RatLeq(ratio, Rat(7, 10)) THEN 3
        ELSE IF RatLeq(ratio, Rat(9, 10)) THEN 4
        ELSE IF RatLeq(ratio, Rat(11, 10)) THEN 5
        ELSE IF RatLeq(ratio, Rat(13, 10)) THEN 6
        ELSE IF RatLeq(ratio, Rat(15, 10)) THEN 7
        ELSE IF RatLeq(ratio, Rat(18, 10)) THEN 8
        ELSE IF RatLeq(ratio, Rat(22, 10)) THEN 9
        ELSE 10

\* the 1-10 danger scale scaled to 0-100 without inverting it
calculateCrimeScoreNotInverted(crime) ==
    IF crime = Null THEN 50
    ELSE LET violentScale == crimeRateTo10Scale(crime.violent_crime_rate, NATIONAL_VIOLENT_RATE)
             propertyScale == crimeRateTo10Scale(crime.property_crime_rate, NATIONAL_PROPERTY_RATE)
             overallScale == MathRound(RatAdd(RatMul(RatInt(violentScale), Rat(6, 10)),
                                              RatMul(RatInt(propertyScale), Rat(4, 10))))
         IN  MathRound(RatInt(overallScale * 10))

calculateCrimeScore(crime) ==
    IF crime = Null THEN 50
    ELSE LET violentScale == crimeRateTo10Scale(crime.violent_crime_rate, NATIONAL_VIOLENT_RATE)
             propertyScale == crimeRateTo10Scale(crime.property_crime_rate, NATIONAL_PROPERTY_RATE)
             overallScale == MathRound(RatAdd(RatMul(RatInt(violentScale), Rat(6, 10)),
                                              RatMul(RatInt(propertyScale), Rat(4, 10))))
         IN  MathRound(RatInt((11 - overallScale) * 10))

\* strict comparisons at the thresholds
calculateDensityScoreStrict(populationDensity) ==
    IF populationDensity = NaN THEN 20
    ELSE IF populationDensity > 5000 THEN 100
    ELSE IF populationDensity > 2000 THEN 80
    ELSE IF populationDensity > 1000 THEN 60
    ELSE IF populationDensity > 500 THEN 40
    ELSE 20

calculateDensityScore(populationDensity) ==
    IF populationDensity = NaN THEN 20
    ELSE IF populationDensity >= 5000 THEN 100
    ELSE IF populationDensity >= 2000 THEN 80
    ELSE IF populationDensity >= 1000 THEN 60
    ELSE IF populationDensity >= 500 THEN 40
    ELSE 20

\* strict comparisons at the breakpoints
calculateCrimeWeightStrict(crimeScore) ==
    IF crimeScore > 80 THEN Rat(15, 100)
    ELSE IF crimeScore > 60 THEN Rat(18, 100)
    ELSE IF crimeScore > 40 THEN Rat(22, 100)
    ELSE IF crimeScore > 20 THEN Rat(26, 100)
    ELSE Rat(30, 100)

calculateCrimeWeight(crimeScore) ==
    IF crimeScore >= 80 THEN Rat(15, 100)
    ELSE IF crimeScore >= 60 THEN Rat(18, 100)
    ELSE IF crimeScore >= 40 THEN Rat(22, 100)
    ELSE IF crimeScore >= 20 THEN Rat(26, 100)
    ELSE Rat(30, 100)

\* a poor density weighted as heavily as the rent
calculateDensityWeightHeavyWhenPoor(densityScore) ==
    IF densityScore >= 60 THEN Rat(10, 100)
    ELSE Rat(60, 100)

calculateDensityWeight(densityScore) ==
    IF densityScore >= 60 THEN Rat(10, 100)
    ELSE IF densityScore >= 40 THEN Rat(15, 100)
    ELSE IF densityScore >= 20 THEN Rat(20, 100)
    ELSE Rat(25, 100)

scoreToGrade(score) ==
    IF score >= 90 THEN "A"
    ELSE IF score >= 80 THEN "B"
    ELSE IF score >= 70 THEN "C"
    ELSE IF score >= 60 THEN "D"
    ELSE "F"

\* strict comparisons at the thresholds
scoreToRecommendationStrict(score) ==
    IF score > 80 THEN "Excellent"
    ELSE IF score > 60 THEN "Good"
    ELSE IF score > 40 THEN "Fair"
    ELSE "Avoid"

scoreToRecommendation(score) ==
    IF score >= 80 THEN "Excellent"
    ELSE IF score >= 60 THEN "Good"
    ELSE IF score >= 40 THEN "Fair"
    ELSE "Avoid"

estimateMedianHomePrice(rent) ==
    IF rent = NaN THEN NaN
    ELSE LET multiplier == IF rent >= 2000 THEN 60
                           ELSE IF rent <= 1000 THEN 40
                           ELSE 50
         IN  MathRound(RatInt(rent * multiplier))

fmrWeight == Rat(6, 10)

\* the sum without the density weight
totalWeightNoDensity(crimeWeight, densityWeight) ==
    RatAdd(fmrWeight, crimeWeight)

totalWeight(crimeWeight, densityWeight) ==
    RatAdd(RatAdd(fmrWeight, crimeWeight), densityWeight)

\* the three weights divided by their sum
NormalizedWeights(crimeScore, densityScore) ==
    LET crimeWeight == calculateCrimeWeight(crimeScore)
        densityWeight == calculateDensityWeight(densityScore)
        total == totalWeight(crimeWeight, densityWeight)
    IN  [fmr |-> RatDiv(fmrWeight, total),
         crime |-> RatDiv(crimeWeight, total),
         density |-> RatDiv(densityWeight, total)]

totalScore(fmrScore, crimeScore, densityScore) ==
    LET w == NormalizedWeights(crimeScore, densityScore)
    IN  MathRound(RatAdd(RatAdd(RatMul(RatInt(fmrScore), w.fmr),
                                RatMul(RatInt(crimeScore), w.crime)),
                         RatMul(RatInt(densityScore), w.density)))

\* Math.round(x * 100) of a normalized weight
WeightPercent(w) == MathRound(RatMul(w, RatInt(100)))

\* a is the argument list: <<fmrData, crimeData, medianHomePrice>> or
\* <<fmrData, crimeData, medianHomePrice, populationDensity>>
calculateInvestmentScore(a) ==
    LET fmr == a[1]
        crime == a[2]
        medianHomePrice == a[3]
        populationDensity == IF Len(a) >= 4 THEN a[4] ELSE DefaultPopulationDensity
    IN  IF fmr = Null THEN Null
        ELSE LET rent == threeBedroomRent(fmr)
             IN  IF rent = 0 THEN Null
                 ELSE LET fmrScore == calculateFMRScore(rent, medianHomePrice)
                          crimeScore == calculateCrimeScore(crime)
                          densityScore == calculateDensityScore(populationDensity)
                          w == NormalizedWeights(crimeScore, densityScore)
                          score == totalScore(fmrScore, crimeScore, densityScore)
                          maxPriceFor2PercentRule ==
                              IF rent = NaN THEN NaN
                              ELSE MathRound(RatDiv(RatInt(rent), Rat(2, 100)))
                          rentToPriceRatio ==
                              IF medianHomePrice # NaN /\ medianHomePrice > 0
                              THEN (IF rent = NaN THEN RatInt(NaN)
                                    ELSE Rat(rent * 12, medianHomePrice))
                              ELSE RatInt(0)
                      IN  [score |-> score,
                           grade |-> scoreToGrade(score),
                           recommendation |-> scoreToRecommendation(score),
                           estimatedPriceRange |->
                               [low |-> IF maxPriceFor2PercentRule = NaN THEN NaN
                                        ELSE MathRound(RatMul(RatInt(maxPriceFor2PercentRule), Rat(85, 100))),
                                high |-> maxPriceFor2PercentRule,
                                median |-> maxPriceFor2PercentRule],
                           averageHomeCost |-> medianHomePrice,
                           requiredRentFor2Percent |->
                               IF medianHomePrice = NaN THEN NaN
                               ELSE MathRound(RatMul(RatInt(medianHomePrice), Rat(2, 100))),
                           rentToPriceRatio |->
                               IF rentToPriceRatio[1] = NaN THEN RatInt(NaN)
                               ELSE Rat(MathRound(RatMul(rentToPriceRatio, RatInt(10000))), 100),
                           breakdown |->
                               [fmrScore |-> MathRound(RatInt(fmrScore)),
                                crimeScore |-> MathRound(RatInt(crimeScore)),
                                densityScore |-> MathRound(RatInt(densityScore)),
                                fmrWeight |-> WeightPercent(w.fmr),
                                crimeWeight |-> WeightPercent(w.crime),
                                densityWeight |-> WeightPercent(w.density)]]

----------------------------------------------------------------------------
(* components/CrimeStats.tsx: the safety ratings the component displays *)

\* the component's scale with the fifth breakpoint at 1.0 instead of 1.1
CrimeStatsScaleLowerBreakpoint(rate, nationalAverage) ==
    LET ratio == Rat(rate, nationalAverage)
    IN  IF RatLeq(ratio, Rat(3, 10)) THEN 1
        ELSE IF RatLeq(ratio, Rat(5, 10)) THEN 2
        ELSE IF RatLeq(ratio, Rat(7, 10)) THEN 3
        ELSE IF RatLeq(ratio, Rat(9, 10)) THEN 4
        ELSE IF RatLeq(ratio, Rat(10, 10)) THEN 5
        ELSE IF RatLeq(ratio, Rat(13, 10)) THEN 6
        ELSE IF RatLeq(ratio, Rat(15, 10)) THEN 7
        ELSE IF RatLeq(ratio, Rat(18, 10)) THEN 8
        ELSE IF RatLeq(ratio, Rat(22, 10)) THEN 9
        ELSE 10

\* crimeRateTo10Scale of CrimeStats.tsx (the component's own copy)
CrimeStatsScale(rate, nationalAverage) ==
    LET ratio == Rat(rate, nationalAverage)
    IN  IF RatLeq(ratio, Rat(3, 10)) THEN 1
        ELSE IF RatLeq(ratio, Rat(5, 10)) THEN 2
        ELSE IF RatLeq(ratio, Rat(7, 10)) THEN 3
        ELSE IF RatLeq(ratio, Rat(9, 10)) THEN 4
        ELSE IF RatLeq(ratio, Rat(11, 10)) THEN 5
        ELSE IF RatLeq(ratio, Rat(13, 10)) THEN 6
        ELSE IF RatLeq(ratio, Rat(15, 10)) THEN 7
        ELSE IF RatLeq(ratio, Rat(18, 10)) THEN 8
        ELSE IF RatLeq(ratio, Rat(22, 10)) THEN 9
        ELSE 10

\* what CrimeStats renders for its data prop: nothing without data, else the
\* violent, property and overall ratings
CrimeStats(data) ==
    IF data = Null THEN Null
    ELSE LET violentScale == CrimeStatsScale(data.violent_crime_rate, 380)
             propertyScale == CrimeStatsScale(data.property_crime_rate, 1958)
         IN  [violentScale |-> violentScale,
              propertyScale |-> propertyScale,
              overallScale |-> MathRound(RatAdd(RatMul(RatInt(violentScale), Rat(6, 10)),
                                                RatMul(RatInt(propertyScale), Rat(4, 10))))]

----------------------------------------------------------------------------
(* JavaScript numbers of the cash-flow calculator.                         *)
(*                                                                         *)
(* The amounts the calculator handles are not integers: every halving of   *)
(* the search interval adds a binary digit to the candidate price.  They   *)
(* are modelled as binary fixed-point numbers <<hi, lo>> of value          *)
(* hi + lo / FxScale with 0 <= lo < FxScale (hi may be negative), which    *)
(* holds every bound and candidate of the search exactly; products and     *)
(* quotients that do not fit are truncated below the last digit, about one *)
(* millionth of a dollar.  A pair with lo < 0 is a non-finite number.      *)

FxScale == 1048576

FxInt(n) == <<n, 0>>
FxZero == <<0, 0>>
FxNaN == <<0, -1>>
FxInfinity == <<1, -1>>
FxIsFinite(a) == a[2] >= 0

FxAdd(a, b) ==
    LET s == a[2] + b[2]
    IN  <<a[1] + b[1] + (s \div FxScale), s % FxScale>>

FxNeg(a) == IF a[2] = 0 THEN <<0 - a[1], 0>> ELSE <<0 - a[1] - 1, FxScale - a[2]>>
FxSub(a, b) == FxAdd(a, FxNeg(b))
FxLess(a, b) == a[1] < b[1] \/ (a[1] = b[1] /\ a[2] < b[2])
FxLeq(a, b) == ~FxLess(b, a)

\* Math.abs
FxAbs(a) == IF FxLess(a, FxZero) THEN FxNeg(a) ELSE a

\* a * n for an integer 0 <= n < 2048
FxMulInt(a, n) ==
    LET p == a[2] * n
    IN  <<a[1] * n + (p \div FxScale), p % FxScale>>

\* a / m for an integer 0 < m < 2048
FxDivInt(a, m) ==
    LET q == a[1] \div m
        r == a[1] % m
    IN  <<q, (r * FxScale + a[2]) \div m>>

\* a * (p / 100)
PercentOf(a, p) == FxDivInt(FxMulInt(a, p), 100)

\* a * n / 10^9 for 0 <= n < 10^9, one group of three decimal digits of n
\* at a time
FxMulNano(a, n) ==
    LET n1 == n \div 1000000
        n2 == (n \div 1000) % 1000
        n3 == n % 1000
        d1(x) == FxDivInt(x, 1000)
    IN  FxAdd(d1(FxMulInt(a, n1)),
              FxAdd(d1(d1(FxMulInt(a, n2))), d1(d1(d1(FxMulInt(a, n3))))))

\* a = q * b + r with q an integer and 0 <= r < b, for a >= 0 and b > 0
RECURSIVE FxDivMod(_, _)
FxDivMod(a, b) ==
    IF FxLess(a, b) THEN <<0, a>>
    ELSE LET h == FxDivMod(a, FxAdd(b, b))
         IN  IF FxLess(h[2], b) THEN <<2 * h[1], h[2]>>
             ELSE <<2 * h[1] + 1, FxSub(h[2], b)>>

\* the first n binary digits of r / b, for 0 <= r < b
RECURSIVE FxFraction(_, _, _)
FxFraction(r, b, n) ==
    IF n = 1 THEN 0
    ELSE LET r2 == FxAdd(r, r)
             bit == IF FxLess(r2, b) THEN 0 ELSE 1
         IN  bit * (n \div 2) + FxFraction(IF bit = 1 THEN FxSub(r2, b) ELSE r2, b, n \div 2)

\* a / b: a division by zero is Infinity, or NaN for 0 / 0
FxDiv(a, b) ==
    LET pos(x) == LET dm == FxDivMod(x, b) IN <<dm[1], FxFraction(dm[2], b, FxScale)>>
    IN  IF b = FxZero THEN (IF a = FxZero THEN FxNaN ELSE FxInfinity)
        ELSE IF FxLess(a, FxZero) THEN FxNeg(pos(FxNeg(a)))
        ELSE pos(a)

\* x * 100 of a quotient, non-finite if the quotient is
Times100(q) == IF FxIsFinite(q) THEN FxMulInt(q, 100) ELSE q

----------------------------------------------------------------------------
(* components/CashFlowCalculator.tsx                                       *)
(*                                                                         *)
(* The ten inputs are one record in; interestRate and propertyTaxRate,     *)
(* which the sliders move in steps of 0.1, are held in tenths of a percent *)
(* (65 is 6.5%), every other field in the unit of the source.              *)

\* useState initial values of the nine assumptions; the rent is a prop
DefaultInputs(rent) ==
    [desiredCashFlow |-> 200, downPaymentPercent |-> 20, interestRate |-> 65,
     propertyTaxRate |-> 12, insurance |-> 100, hoa |-> 0, vacancy |-> 8,
     maintenance |-> 10, propertyManagement |-> 10, fmrRent |-> rent]

\* useState initial values of the six results
ZeroResults ==
    [maxPurchasePrice |-> FxZero, monthlyMortgage |-> FxZero,
     totalMonthlyExpenses |-> FxZero, netOperatingIncome |-> FxZero,
     cashOnCashReturn |-> FxZero, capRate |-> FxZero]

monthlyRent(in) == FxInt(in.fmrRent)
vacancyCost(in) == PercentOf(monthlyRent(in), in.vacancy)
maintenanceCost(in) == PercentOf(monthlyRent(in), in.maintenance)
pmCost(in) == PercentOf(monthlyRent(in), in.propertyManagement)
effectiveMonthlyIncome(in) == FxSub(monthlyRent(in), vacancyCost(in))

fixedOperatingCosts(in) ==
    FxAdd(FxAdd(FxAdd(FxInt(in.insurance), FxInt(in.hoa)), maintenanceCost(in)), pmCost(in))

\* the desired cash flow added to the income instead of taken from it
availableForDebtServiceAddsCashFlow(in) ==
    FxAdd(FxSub(effectiveMonthlyIncome(in), fixedOperatingCosts(in)), FxInt(in.desiredCashFlow))

availableForDebtService(in) ==
    FxSub(FxSub(effectiveMonthlyIncome(in), fixedOperatingCosts(in)), FxInt(in.desiredCashFlow))

\* (monthlyRent * 12) - ((vacancyCost + maintenanceCost + pmCost + insurance + hoa) * 12)
IncomeBeforeTax(in) ==
    LET costs == FxAdd(FxAdd(FxAdd(FxAdd(vacancyCost(in), maintenanceCost(in)), pmCost(in)),
                             FxInt(in.insurance)), FxInt(in.hoa))
    IN  FxSub(FxMulInt(monthlyRent(in), 12), FxMulInt(costs, 12))

\* the branch taken when availableForDebtService <= 0
InfeasibleResultsNoShortfall(in) ==
    [maxPurchasePrice |-> FxZero, monthlyMortgage |-> FxZero,
     totalMonthlyExpenses |-> FxZero,
     netOperatingIncome |-> IncomeBeforeTax(in),
     cashOnCashReturn |-> FxZero, capRate |-> FxZero]

InfeasibleResults(in) ==
    [maxPurchasePrice |-> FxZero, monthlyMortgage |-> FxZero,
     totalMonthlyExpenses |-> fixedOperatingCosts(in),
     netOperatingIncome |-> IncomeBeforeTax(in),
     cashOnCashReturn |-> FxZero, capRate |-> FxZero]

SearchLow == 1000
SearchHigh == 2000000
MaxIterations == 100
Tolerance == 10
numPayments == 360

\* monthlyRate * Math.pow(1 + monthlyRate, 360) / (Math.pow(1 + monthlyRate, 360) - 1)
\* with monthlyRate = interestRate / 100 / 12, in billionths, at the nonzero
\* interest rates of the model (3%, 6.5% and 12%)
AnnuityNano(interestRate) ==
    CASE interestRate = 30 -> 4216040
      [] interestRate = 65 -> 6320680
      [] interestRate = 120 -> 10286126

loanAmount(in, price) == PercentOf(price, 100 - in.downPaymentPercent)

\* the straight-line payment at a zero rate, the amortised payment otherwise
mortgageNoZeroRateCase(in, price) ==
    IF in.interestRate = 0 THEN FxNaN
    ELSE FxMulNano(loanAmount(in, price), AnnuityNano(in.interestRate))

mortgage(in, price) ==
    IF in.interestRate = 0 THEN FxDivInt(loanAmount(in, price), numPayments)
    ELSE FxMulNano(loanAmount(in, price), AnnuityNano(in.interestRate))

\* (price * propertyTaxRate / 100) / 12
propertyTax(in, price) == FxDivInt(FxDivInt(FxMulInt(price, in.propertyTaxRate), 1000), 12)

debtService(in, price) == FxAdd(mortgage(in, price), propertyTax(in, price))

\* the local variables of the search before its first iteration
StartSearchFromZero ==
    [pc |-> "loop", i |-> 0, low |-> FxZero, high |-> FxInt(SearchHigh),
     bestPrice |-> FxZero]

StartSearch ==
    [pc |-> "loop", i |-> 0, low |-> FxInt(SearchLow), high |-> FxInt(SearchHigh),
     bestPrice |-> FxZero]

NoSearch == [pc |-> "idle", i |-> 0, low |-> FxZero, high |-> FxZero, bestPrice |-> FxZero]

\* high - low < 1
IntervalCollapsedNever(low, high) == FxLess(FxSub(high, low), FxZero)

IntervalCollapsed(low, high) == FxLess(FxSub(high, low), FxInt(1))

\* one iteration of the for loop: pc becomes "final" on a break and when the
\* loop condition i < 100 fails
LoopBodyLooseTolerance(in, s) ==
    LET testPrice == FxDivInt(FxAdd(s.low, s.high), 2)
        ds == debtService(in, testPrice)
        avail == availableForDebtService(in)
        lower == FxLess(ds, avail)
        low2 == IF lower THEN testPrice ELSE s.low
        high2 == IF lower THEN s.high ELSE testPrice
        best2 == IF lower THEN testPrice ELSE s.bestPrice
    IN  IF FxLess(FxAbs(FxSub(ds, avail)), FxInt(Tolerance * Tolerance))
        THEN [s EXCEPT !.pc = "final", !.bestPrice = testPrice]
        ELSE IF IntervalCollapsed(low2, high2)
        THEN [pc |-> "final", i |-> s.i, low |-> low2, high |-> high2, bestPrice |-> low2]
        ELSE [pc |-> IF s.i + 1 < MaxIterations THEN "loop" ELSE "final",
              i |-> s.i + 1, low |-> low2, high |-> high2, bestPrice |-> best2]

LoopBody(in, s) ==
    LET testPrice == FxDivInt(FxAdd(s.low, s.high), 2)
        ds == debtService(in, testPrice)
        avail == availableForDebtService(in)
        lower == FxLess(ds, avail)
        low2 == IF lower THEN testPrice ELSE s.low
        high2 == IF lower THEN s.high ELSE testPrice
        best2 == IF lower THEN testPrice ELSE s.bestPrice
    IN  IF FxLess(FxAbs(FxSub(ds, avail)), FxInt(Tolerance))
        THEN [s EXCEPT !.pc = "final", !.bestPrice = testPrice]
        ELSE IF IntervalCollapsed(low2, high2)
        THEN [pc |-> "final", i |-> s.i, low |-> low2, high |-> high2, bestPrice |-> low2]
        ELSE [pc |-> IF s.i + 1 < MaxIterations THEN "loop" ELSE "final",
              i |-> s.i + 1, low |-> low2, high |-> high2, bestPrice |-> best2]

\* the final numbers at the best price
FinalNumbers(in, bestPrice) ==
    LET tax == propertyTax(in, bestPrice)
        pay == mortgage(in, bestPrice)
        totalExpenses ==
            FxAdd(FxAdd(FxAdd(FxAdd(FxAdd(pay, tax), FxInt(in.insurance)), FxInt(in.hoa)),
                        maintenanceCost(in)), pmCost(in))
        noi == FxSub(IncomeBeforeTax(in), FxMulInt(tax, 12))
        downPayment == PercentOf(bestPrice, in.downPaymentPercent)
        annualCashFlow == FxInt(in.desiredCashFlow * 12)
        cocReturn == IF FxLess(FxZero, downPayment)
                     THEN Times100(FxDiv(annualCashFlow, downPayment)) ELSE FxZero
        capRateCalc == IF FxLess(FxZero, bestPrice)
                       THEN Times100(FxDiv(noi, bestPrice)) ELSE FxZero
    IN  [maxPurchasePrice |-> bestPrice, monthlyMortgage |-> pay,
         totalMonthlyExpenses |-> totalExpenses, netOperatingIncome |-> noi,
         cashOnCashReturn |-> cocReturn, capRate |-> capRateCalc]

RECURSIVE RunLoop(_, _)
RunLoop(in, s) == IF s.pc = "loop" THEN RunLoop(in, LoopBody(in, s)) ELSE s

\* calculateMaxPrice from entry to return: the six values it sets
calculateMaxPrice(in) ==
    IF FxLeq(availableForDebtService(in), FxZero) THEN InfeasibleResults(in)
    ELSE FinalNumbers(in, RunLoop(in, StartSearch).bestPrice)

----------------------------------------------------------------------------
(* utils/apiHelpers.ts: the localStorage cache.  The clock counts days.     *)

CACHE_DURATION_DAYS == 30

\* what localStorage.getItem returns for a missing key
NoItem == [t |-> "null"]

\* JSON.stringify of a cache entry: a data field that is undefined is left out
JSONstringify(entry) ==
    IF entry.data = Undefined
    THEN [t |-> "json", timestamp |-> entry.timestamp, expiresAt |-> entry.expiresAt]
    ELSE [t |-> "json", data |-> entry.data, timestamp |-> entry.timestamp,
          expiresAt |-> entry.expiresAt]

\* JSON.parse: a field the text does not have reads as undefined
JSONparse(text) ==
    [data |-> IF "data" \in DOMAIN text THEN text.data ELSE Undefined,
     timestamp |-> text.timestamp, expiresAt |-> text.expiresAt]

\* getCachedData: the value returned and localStorage afterwards
getCachedDataKeepsExpired(store, key, t) ==
    IF store[key] = NoItem THEN [ret |-> Null, store |-> store]
    ELSE LET entry == JSONparse(store[key])
         IN  IF t > entry.expiresAt
             THEN [ret |-> Null, store |-> store]
             ELSE [ret |-> entry.data, store |-> store]

getCachedData(store, key, t) ==
    IF store[key] = NoItem THEN [ret |-> Null, store |-> store]
    ELSE LET entry == JSONparse(store[key])
         IN  IF t > entry.expiresAt
             THEN [ret |-> Null, store |-> [store EXCEPT ![key] = NoItem]]
             ELSE [ret |-> entry.data, store |-> store]

\* setCachedData: localStorage afterwards; a setItem that throws (quota) is
\* caught and leaves it as it was
setCachedData(store, key, data, t, stored) ==
    LET entry == [data |-> data, timestamp |-> t, expiresAt |-> t + CACHE_DURATION_DAYS]
    IN  IF stored THEN [store EXCEPT ![key] = JSONstringify(entry)] ELSE store

\* what JSON.parse(value).expiresAt gives for a stored text: a text that is
\* not JSON and the text 'null' make the statement throw (Thrown), a JSON
\* value without the field gives undefined
ExpiresAtOf(value) ==
    IF value.t # "json" \/ "null" \in DOMAIN value THEN [t |-> "thrown"]
    ELSE IF "expiresAt" \in DOMAIN value THEN [t |-> "number", n |-> value.expiresAt]
    ELSE Undefined

\* clearExpiredCache: localStorage afterwards.  The keys to remove are
\* collected first and removed after the scan.
clearExpiredCacheWithoutFieldCheck(store, t) ==
    LET keysToRemove == {key \in DOMAIN store :
            /\ store[key] # NoItem
            /\ ExpiresAtOf(store[key]).t # "thrown"
            /\ t > (IF ExpiresAtOf(store[key]).t = "number" THEN ExpiresAtOf(store[key]).n ELSE 0)}
    IN  [key \in DOMAIN store |-> IF key \in keysToRemove THEN NoItem ELSE store[key]]

clearExpiredCache(store, t) ==
    LET keysToRemove == {key \in DOMAIN store :
            /\ store[key] # NoItem
            /\ ExpiresAtOf(store[key]).t = "number"
            /\ ExpiresAtOf(store[key]).n # 0
            /\ t > ExpiresAtOf(store[key]).n}
    IN  [key \in DOMAIN store |-> IF key \in keysToRemove THEN NoItem ELSE store[key]]

\* an empty cache
CacheIdle ==
    /\ localStorage = [k \in {"cache_hud_fmr_75001", "cache_zipcode_75001"} |-> NoItem]
    /\ now = 0
    /\ got = [key |-> "", ret |-> Pending]

\* the calculator as mounted and never opened
CalcIdle ==
    /\ inputs = DefaultInputs(1500)
    /\ results = ZeroResults
    /\ search = NoSearch
    /\ isOpen = FALSE
    /\ effectDue = FALSE

----------------------------------------------------------------------------
(* hooks/useZipCodeLookup.ts.  A county name is the sequence of its words;  *)
(* the empty sequence stands for a name that is missing or empty, which are *)
(* equally falsy, and "" for a missing or empty state.                      *)

UnknownCounty == <<"Unknown", "County">>

getCacheKey(type, identifier) == "cache_" \o type \o "_" \o identifier

\* cached && cached.county !== 'Unknown County', without the county test
UseCachedWhateverCounty(cached) == cached # Null

\* cached && cached.county !== 'Unknown County'
UseCached(cached) == cached # Null /\ cached.county # UnknownCounty

\* what the geocoders found: address.county || address.county_name ||
\* address.region, else the part of display_name that names a county, else
\* the county_name of the Zippopotam / FCC fallback
ExtractCounty(answer) ==
    IF answer.county # <<>> THEN answer.county
    ELSE IF answer.displayCounty # <<>> THEN answer.displayCounty
    ELSE answer.fcc

\* countyName ? countyName.replace(/ County$/i, '') + ' County' : 'Unknown County'
cleanCountyName(countyName) ==
    IF countyName = <<>> THEN UnknownCounty
    ELSE IF Len(countyName) >= 2 /\ countyName[Len(countyName)] \in {"County", "county", "COUNTY"}
    THEN SubSeq(countyName, 1, Len(countyName) - 1) \o <<"County">>
    ELSE countyName \o <<"County">>

\* locationData (the fields the pages read)
locationDataOf(zipCode, answer) ==
    [zip |-> zipCode,
     county |-> cleanCountyName(ExtractCounty(answer)),
     state |-> IF answer.state # "" THEN answer.state ELSE "Unknown State",
     population |-> Undefined]

----------------------------------------------------------------------------
(* useListingCounts (hooks/useCrimeData.ts).  The hook's state is one       *)
(* record h:                                                                *)
(*   mounted           the component is mounted (with enabled set and a     *)
(*                     metro list that is not empty)                        *)
(*   listingCounts     the Map: metro name -> [count, status, error]        *)
(*                     (count -1 stands for null)                           *)
(*   progress          [loaded, total]                                      *)
(*   listingCache      the IndexedDB store: metro's cache key -> count,     *)
(*                     -1 when there is no entry                            *)
(*   controllers       the AbortControllers made so far: TRUE when aborted;  *)
(*                     abortControllerRef.current is the last one           *)
(*   queueRef          queueRef.current                                     *)
(*   queueRuns         per run of the queue effect: the position of its     *)
(*                     processQueue loop and what it awaits                  *)
(*   tasks             the calls of fetchListingForMetro in flight, by      *)
(*                     owner: 0 for refetch, g for the g-th queue run       *)
(*   refetches         how many refetch calls were made                     *)

MaxEffectRuns == 2      \* runs of the queue effect (mount and dependency changes)
MaxRefetches == 1       \* manual refetch calls

\* metroAreas: the names in order, and each metro's ZIP codes
MetroNames == <<"Dallas", "Austin">>
ZipCodesOf(metro) ==
    IF metro = "Dallas" THEN <<"75001", "75002", "75003">> ELSE <<"78701">>

NotDeployed == "Netlify function not deployed. Deploy to Netlify to enable scraping."

NoTask == [metro |-> "", pc |-> "none", i |-> 0, totalCount |-> 0, signal |-> 0, saw404 |-> FALSE]

\* the hook before its effects have run
ListingUnmounted ==
    [mounted |-> FALSE,
     listingCounts |-> [m \in {} |-> 0],
     progress |-> [loaded |-> 0, total |-> 0],
     listingCache |-> [m \in {"Dallas", "Austin"} |-> -1],
     controllers |-> <<>>,
     queueRef |-> <<>>,
     queueRuns |-> [g \in 1..MaxEffectRuns |-> [pos |-> 0, st |-> "unused"]],
     tasks |-> [o \in 0..MaxEffectRuns |-> NoTask],
     refetches |-> 0]

\* abortControllerRef.current?.signal.aborted
RefAborted(h) == Len(h.controllers) > 0 /\ h.controllers[Len(h.controllers)]

\* queueRef.current.indexOf(name), counted from 0
IndexOf(list, name) ==
    IF \E k \in DOMAIN list : list[k] = name
    THEN (CHOOSE k \in DOMAIN list : list[k] = name /\ \A j \in 1..(k - 1) : list[j] # name) - 1
    ELSE -1

\* a state update of a mounted component; React drops it after unmount
SetListingCount(h, metro, entry) ==
    IF h.mounted
    THEN [h EXCEPT !.listingCounts = [m \in DOMAIN @ \cup {metro} |-> IF m = metro THEN entry ELSE @[m]]]
    ELSE h

\* setProgress(prev => ({ ...prev, loaded: prev.loaded + 1 }))
IncrementLoaded(h) ==
    IF h.mounted THEN [h EXCEPT !.progress.loaded = @ + 1] ELSE h

\* fetchListingForMetro up to its first await: status 'loading', then the
\* cache is asked
StartTask(h, owner, metro) ==
    LET h1 == IF metro \in DOMAIN h.listingCounts
              THEN SetListingCount(h, metro, [h.listingCounts[metro] EXCEPT !.status = "loading"])
              ELSE h
    IN  [h1 EXCEPT !.tasks[owner] = [NoTask EXCEPT !.metro = metro, !.pc = "cacheCheck"]]

\* the head of the ZIP loop at index i (from 1): past the last ZIP or with
\* the current controller aborted the loop is left and the total is cached,
\* else the ZIP is requested with the current controller's signal
LoopHead(h, owner, i) ==
    IF i > Len(ZipCodesOf(h.tasks[owner].metro)) \/ RefAborted(h)
    THEN [h EXCEPT !.tasks[owner].pc = "caching", !.tasks[owner].i = i]
    ELSE [h EXCEPT !.tasks[owner].pc = "fetching", !.tasks[owner].i = i,
                   !.tasks[owner].signal = Len(h.controllers)]

\* the head of the processQueue loop of run g at position pos
QueueNext(h, g, pos) ==
    IF pos > Len(MetroNames) \/ RefAborted(h)
    THEN [h EXCEPT !.queueRuns[g] = [pos |-> pos, st |-> "done"]]
    ELSE StartTask([h EXCEPT !.queueRuns[g] = [pos |-> pos, st |-> "task"]], g, MetroNames[pos])

\* fetchListingForMetro returns: a refetch is over, a queue run waits 30
\* seconds unless the metro is the last of queueRef.current
TaskEnds(h, owner) ==
    LET h1 == [h EXCEPT !.tasks[owner] = NoTask]
    IN  IF owner = 0 THEN h1
        ELSE IF IndexOf(h1.queueRef, MetroNames[h1.queueRuns[owner].pos]) < Len(h1.queueRef) - 1
        THEN [h1 EXCEPT !.queueRuns[owner].st = "wait"]
        ELSE QueueNext(h1, owner, h1.queueRuns[owner].pos + 1)

\* the cleanup of the queue effect
Cleanup(h) ==
    IF Len(h.controllers) > 0
    THEN [h EXCEPT !.controllers[Len(h.controllers)] = TRUE, !.queueRef = <<>>]
    ELSE h

\* both effects, in order (clearExpiredCache finds nothing older than a day:
\* no time passes here)
RunEffects(h) ==
    LET h1 == [h EXCEPT
                !.mounted = TRUE,
                !.listingCounts =
                    [m \in {MetroNames[k] : k \in DOMAIN MetroNames} |->
                        [count |-> -1, status |-> "pending", error |-> ""]],
                !.progress = [loaded |-> 0, total |-> Len(MetroNames)],
                !.controllers = Append(@, FALSE),
                !.queueRef = MetroNames]
    IN  QueueNext(h1, Len(h1.controllers), 1)

\* getCachedListingCount answered (IndexedDB requests are taken to
\* succeed): a hit is shown and counted, a miss enters the ZIP loop
CacheAnswered(h, owner) ==
    LET metro == h.tasks[owner].metro
        cached == h.listingCache[metro]
    IN  IF cached # -1
        THEN TaskEnds(IncrementLoaded(
                 SetListingCount(h, metro, [count |-> cached, status |-> "cached", error |-> ""])),
                 owner)
        ELSE LoopHead(h, owner, 1)

\* the scrape endpoint answered the request for ZIP i, or the request was
\* aborted: an abort ends the call silently, every other failure (the 404
\* included) is caught and the loop goes on
FetchAnswered(h, owner, resp) ==
    LET t == h.tasks[owner]
    IN  IF t.signal > 0 /\ h.controllers[t.signal]
        THEN TaskEnds(h, owner)
        ELSE LET h1 == [h EXCEPT
                         !.tasks[owner].totalCount = IF resp = "ok" THEN @ + 5 ELSE @,
                         !.tasks[owner].saw404 = @ \/ resp = "404"]
             IN  IF t.i % 2 = 0 /\ t.i < Len(ZipCodesOf(t.metro))
                 THEN [h1 EXCEPT !.tasks[owner].pc = "waiting"]
                 ELSE LoopHead(h1, owner, t.i + 1)

\* setCachedListingCount done: the total is cached, shown as 'fresh' and
\* counted
CacheWritten(h, owner) ==
    LET t == h.tasks[owner]
        h1 == [h EXCEPT !.listingCache[t.metro] = t.totalCount]
    IN  TaskEnds(IncrementLoaded(
            SetListingCount(h1, t.metro, [count |-> t.totalCount, status |-> "fresh", error |-> ""])),
            owner)

----------------------------------------------------------------------------
(* The per-ZIP fetch hooks useZipFMRData, useCensusData and useHUDData.     *)
(* The three keep the same state and differ in what they fetch; the model   *)
(* follows one instance h:                                                  *)
(*   hook      which of the three it is                                     *)
(*   zipCode   the zipCode argument of the last render ("" for null)        *)
(*   data, loading, error   the hook's state                                *)
(*   cache     the ZIP codes with an unexpired localStorage entry           *)
(*   pending   per ZIP code, the requests sent and not yet answered         *)
(*   changes   how often the ZIP code has changed                           *)
(* useHUDData awaits two requests in a row and updates no state between     *)
(* them: they are one outstanding request here, and its state and county    *)
(* arguments are taken as given.                                            *)

MaxZipChanges == 3

HookNames == {"useZipFMRData", "useCensusData", "useHUDData"}
HookZips == {"75001", "75002"}

\* what a hook stores for a ZIP code: FMRData.zip_code, CensusData.zipCode
DataFor(zipCode) == [zipCode |-> zipCode]

HookMounted(hook) ==
    [hook |-> hook, zipCode |-> "", data |-> Null, loading |-> FALSE, error |-> FALSE,
     cache |-> {}, pending |-> [z \in HookZips |-> 0], changes |-> 0]

\* fetchData up to its first await, for the ZIP code of this render
fetchData(h, zipCode) ==
    IF zipCode \notin HookZips THEN [h EXCEPT !.zipCode = zipCode, !.data = Null]
    ELSE IF zipCode \in h.cache
    THEN [h EXCEPT !.zipCode = zipCode, !.error = FALSE, !.loading = FALSE,
                   !.data = DataFor(zipCode)]
    ELSE [h EXCEPT !.zipCode = zipCode, !.error = FALSE, !.loading = TRUE,
                   !.pending[zipCode] = @ + 1]

\* fetchData after its await, for the ZIP code it was called with: the data
\* is cached and set, or the error is set and the data cleared
fetchDataResumed(h, zipCode, ok) ==
    IF ok
    THEN [h EXCEPT !.pending[zipCode] = @ - 1, !.cache = @ \cup {zipCode},
                   !.data = DataFor(zipCode), !.loading = FALSE]
    ELSE [h EXCEPT !.pending[zipCode] = @ - 1, !.error = TRUE, !.data = Null,
                   !.loading = FALSE]

\* SearchPage.currentResult, as far as it pairs the ZIP code with the data
currentResult(h) ==
    IF h.zipCode = "" \/ h.data = Null THEN Null
    ELSE [zipCode |-> h.zipCode, fmrData |-> h.data]

----------------------------------------------------------------------------
(* The watchlist: saved_searches as App and SearchPage handle it *)

\* the pages that render the Watchlist component
WatchPages == {"app", "search"}

\* a SavedSearch as handleSaveToWatchlist builds it
SavedSearch(id, zipCode) ==
    [id |-> id, zipCode |-> zipCode, result |-> [zipCode |-> zipCode]]

\* handleRemoveFromWatchlist of a page: the list it stores
handleRemoveFromWatchlist(page, list, id) ==
    IF page = "app"
    THEN SelectSeq(list, LAMBDA s : s.id # id)
    ELSE SelectSeq(list, LAMBDA s : s.result # Null /\ s.result.zipCode # id)

NoClick == [page |-> "", id |-> "", before |-> <<>>]

\* an empty watchlist
WatchIdle ==
    /\ savedSearches = <<>>
    /\ removeClick = NoClick

----------------------------------------------------------------------------
(* netlify/functions/scrape-listings.ts *)

\* the CORS headers every return statement of the handler passes
CorsHeaders ==
    [AccessControlAllowOrigin |-> "*", AccessControlAllowHeaders |-> "Content-Type",
     AccessControlAllowMethods |-> "POST, OPTIONS", ContentType |-> "application/json"]

\* a request body: text that is empty, malformed, or the JSON of a value
EmptyText == [t |-> "text", empty |-> TRUE, valid |-> FALSE, value |-> Undefined]
MalformedText == [t |-> "text", empty |-> FALSE, valid |-> FALSE, value |-> Undefined]
JSONOf(value) == [t |-> "text", empty |-> FALSE, valid |-> TRUE, value |-> value]

\* a parsed JSON object with the three fields the handler reads; a field
\* the text does not have is undefined
Object(zipCode, maxPrice, minBeds) ==
    [t |-> "object", zipCode |-> zipCode, maxPrice |-> maxPrice, minBeds |-> minBeds]

\* JSON.parse(event.body || '{}'): what it returns or that it throws
ParseBody(body) ==
    IF body = Null \/ body.empty
    THEN [t |-> "return", value |-> Object(Undefined, Undefined, Undefined)]
    ELSE IF ~body.valid THEN [t |-> "throw", message |-> "Unexpected token"]
    ELSE [t |-> "return", value |-> body.value]

\* property access on a parsed value: undefined on a number or a string
Field(value, name) == IF value.t = "object" THEN value[name] ELSE Undefined

\* match[1].replace(/,/g, '')
RemoveCommas(s) == SelectSeq(s, LAMBDA c : c # ",")

\* the count of the first pattern that matches; matches[i] is the text
\* pattern i captured in the page, Null when it does not match
RECURSIVE FirstCount(_)
FirstCount(matches) ==
    IF matches = <<>> THEN 0
    ELSE IF Head(matches) # Null
              /\ ParseIntStr(RemoveCommas(Head(matches).s)) # NaN
              /\ ParseIntStr(RemoveCommas(Head(matches).s)) >= 0
    THEN ParseIntStr(RemoveCommas(Head(matches).s))
    ELSE FirstCount(Tail(matches))

\* scrapeRealtorCount given what fetch did: the count it returns or the
\* error it throws
scrapeRealtorCount(f) ==
    CASE f.t = "rejected" -> [t |-> "throw", message |-> f.message]
      [] f.t = "response" /\ ~f.ok -> [t |-> "throw", message |-> "HTTP " \o f.status \o ": " \o f.statusText]
      [] f.t = "response" /\ f.ok -> [t |-> "return", count |-> FirstCount(f.matches)]

ErrorBody(message) == [t |-> "json", success |-> FALSE, error |-> message]

\* the handler: the response to an event ev, given what fetch does if called
handlerRejectsNothing(ev, f) ==
    IF ev.httpMethod = "OPTIONS"
    THEN [statusCode |-> 200, headers |-> CorsHeaders, body |-> EmptyText]
    ELSE IF ev.httpMethod # "POST"
    THEN [statusCode |-> 405, headers |-> CorsHeaders,
          body |-> ErrorBody("Method not allowed. Use POST.")]
    ELSE LET parsed == ParseBody(ev.body)
         IN  IF parsed.t = "throw"
             THEN [statusCode |-> 500, headers |-> CorsHeaders, body |-> ErrorBody(parsed.message)]
             ELSE IF parsed.value = Null
             THEN [statusCode |-> 500, headers |-> CorsHeaders,
                   body |-> ErrorBody("Cannot destructure property 'zipCode'")]
             ELSE LET scraped == scrapeRealtorCount(f)
                  IN  IF scraped.t = "throw"
                      THEN [statusCode |-> 500, headers |-> CorsHeaders,
                            body |-> ErrorBody(scraped.message)]
                      ELSE [statusCode |-> 200, headers |-> CorsHeaders,
                            body |-> [t |-> "json", success |-> TRUE, count |-> scraped.count,
                                      zipCode |-> Field(parsed.value, "zipCode"),
                                      timestamp |-> "toISOString"]]

handler(ev, f) ==
    IF ev.httpMethod = "OPTIONS"
    THEN [statusCode |-> 200, headers |-> CorsHeaders, body |-> EmptyText]
    ELSE IF ev.httpMethod # "POST"
    THEN [statusCode |-> 405, headers |-> CorsHeaders,
          body |-> ErrorBody("Method not allowed. Use POST.")]
    ELSE LET parsed == ParseBody(ev.body)
         IN  IF parsed.t = "throw"
             THEN [statusCode |-> 500, headers |-> CorsHeaders, body |-> ErrorBody(parsed.message)]
             ELSE IF parsed.value = Null
             THEN [statusCode |-> 500, headers |-> CorsHeaders,
                   body |-> ErrorBody("Cannot destructure property 'zipCode'")]
             ELSE IF \/ ~Truthy(Field(parsed.value, "zipCode"))
                     \/ ~Truthy(Field(parsed.value, "maxPrice"))
                     \/ ~Truthy(Field(parsed.value, "minBeds"))
             THEN [statusCode |-> 400, headers |-> CorsHeaders,
                   body |-> ErrorBody("Missing required parameters: zipCode, maxPrice, minBeds")]
             ELSE LET scraped == scrapeRealtorCount(f)
                  IN  IF scraped.t = "throw"
                      THEN [statusCode |-> 500, headers |-> CorsHeaders,
                            body |-> ErrorBody(scraped.message)]
                      ELSE [statusCode |-> 200, headers |-> CorsHeaders,
                            body |-> [t |-> "json", success |-> TRUE, count |-> scraped.count,
                                      zipCode |-> Field(parsed.value, "zipCode"),
                                      timestamp |-> "toISOString"]]

\* no request
ScrapeIdle ==
    /\ event = [httpMethod |-> "", body |-> Null]
    /\ fetched = [t |-> "rejected", message |-> ""]
    /\ response = Pending

\* the hooks before their first effect
HooksIdle ==
    /\ lookups = [pending |-> {}, last |-> [op |-> "none"]]
    /\ searchHistory = <<>>
    /\ lastSearch = [zipCode |-> "", before |-> <<>>]
    /\ searches = 0
    /\ listings = ListingUnmounted
    /\ zipHook = HookMounted("useHUDData")

RestIdle == CalcIdle /\ CacheIdle /\ WatchIdle /\ ScrapeIdle /\ HooksIdle

----------------------------------------------------------------------------
(* Inputs *)

MaxCrimeSteps == 12     \* coarse crime grid: rates up to 12 fifths of the baseline
MaxRateSteps == 24      \* fine crime grid: rates up to 24 tenths of the baseline
MaxRentSteps == 30      \* rents up to 30 * RentStep
MaxItems == 2           \* longest basicdata array

RentStep == 100

Zips == {"75001", "75002"}

FmrOf(rent) ==
    [zip_code |-> "75001", data |-> [fmr_3 |-> Num(rent), basicdata |-> Undefined]]

CrimeOf(v, p) == [violent_crime_rate |-> v, property_crime_rate |-> p]

BaseFmr == FmrOf(1200)
BaseCrime == CrimeOf(NATIONAL_VIOLENT_RATE, NATIONAL_PROPERTY_RATE)

SeqUpTo(S, n) == UNION {[1..k -> S] : k \in 0..n}

TBStrings ==
    {<<"1", "3", "5", "0">>, <<"0">>, <<"N", "A">>, <<"9", "5", "0", ".", "5">>,
     <<" ", "8", "0", "0">>, <<>>}

TBValues == {Undefined, Num(0), Num(1350)} \cup {Str(s) : s \in TBStrings}

Items == [zip_code : Zips, ThreeBedroom : {Undefined} \cup {Str(s) : s \in TBStrings}]

BasicData ==
    {Undefined}
    \cup {[t |-> "object", ThreeBedroom |-> v] : v \in TBValues}
    \cup {[t |-> "array", items |-> s] : s \in SeqUpTo(Items, MaxItems)}

FmrVariants ==
    {[zip_code |-> "75001", data |-> [fmr_3 |-> f, basicdata |-> b]] :
        f \in {Undefined, Num(0), Num(1200)}, b \in BasicData}

CoarseRates(base) == {(base * k) \div 5 : k \in 0..MaxCrimeSteps}
FineViolentRates == {(NATIONAL_VIOLENT_RATE * k) \div 10 + j : k \in 0..MaxRateSteps, j \in {0, 1}}
FinePropertyRates == {(NATIONAL_PROPERTY_RATE * k) \div 10 + j : k \in 0..MaxRateSteps, j \in {0, 1}}

Prices == {0, 50000, 80000, 100000, 150000}
Densities == {0, 499, 500, 999, 1000, 1999, 2000, 4999, 5000}
Rents == {k * RentStep : k \in 1..MaxRentSteps}

\* every sub-score combination: one rent, all price bands, a grid of crime
\* rates or no crime data, every density band or no density argument
GeneralInputs ==
    LET crimes == {Null} \cup {CrimeOf(v, p) : v \in CoarseRates(NATIONAL_VIOLENT_RATE),
                                               p \in CoarseRates(NATIONAL_PROPERTY_RATE)}
    IN  {<<BaseFmr, c, h>> : c \in crimes, h \in Prices}
        \cup {<<BaseFmr, c, h, d>> : c \in crimes, h \in Prices, d \in Densities}

\* crime rates on both sides of every breakpoint
CrimeInputs ==
    {<<BaseFmr, CrimeOf(v, p), 100000, 1000>> : v \in FineViolentRates, p \in FinePropertyRates}

\* rents against prices
RentInputs ==
    {<<FmrOf(r), BaseCrime, h, 1000>> : r \in Rents, h \in {50000, 100000, 125000}}

\* every shape of FMR data
FmrInputs ==
    {<<f, BaseCrime, 100000, 1000>> : f \in {Null} \cup FmrVariants}

ScorerInputs == GeneralInputs \cup CrimeInputs \cup RentInputs \cup FmrInputs

----------------------------------------------------------------------------
(* Pages *)

Pages == {"search", "app", "metro"}

NoMetrics == [p \in Pages |-> Null]

\* censusData?.medianHomeValue || estimateMedianHomePrice(rent)
medianHomePriceOf(census, rent) ==
    IF census # Null /\ census.medianHomeValue # 0 /\ census.medianHomeValue # NaN
    THEN census.medianHomeValue
    ELSE estimateMedianHomePrice(rent)

\* the 3BR rent App resolves: the array item is found by the current ZIP and
\* the object value always goes through parseInt
AppThreeBedroomRent(fmr, zip) ==
    LET fromFmr3 == OrZero(fmr.data.fmr_3)
        basicdata == fmr.data.basicdata
    IN  IF fromFmr3 = 0 /\ basicdata.t = "array"
        THEN LET zipData == FindZip(basicdata.items, zip)
             IN  IF zipData # Undefined /\ Truthy(zipData.ThreeBedroom)
                 THEN parseInt(zipData.ThreeBedroom)
                 ELSE fromFmr3
        ELSE IF fromFmr3 = 0 /\ basicdata.t = "object"
        THEN (IF Truthy(basicdata.ThreeBedroom)
              THEN parseInt(basicdata.ThreeBedroom)
              ELSE fromFmr3)
        ELSE fromFmr3

\* SearchPage: investmentMetrics
SearchPageMetrics(fmr, crime, loc, census) ==
    IF fmr = Null \/ loc = Null THEN Null
    ELSE LET medianHomePrice == medianHomePriceOf(census, threeBedroomRent(fmr))
             populationDensity == OrZero(loc.population)
         IN  calculateInvestmentScore(<<fmr, crime, populationDensity, medianHomePrice>>)

\* App: investmentMetrics
AppMetrics(zip, fmr, crime, census) ==
    IF fmr = Null THEN Null
    ELSE LET medianHomePrice == medianHomePriceOf(census, AppThreeBedroomRent(fmr, zip))
         IN  calculateInvestmentScore(<<fmr, crime, medianHomePrice>>)

\* MetroAreaAnalysisPage, ZipAnalysisView: investmentMetrics
ZipAnalysisMetrics(fmr, crime, loc, census) ==
    IF fmr = Null \/ loc = Null THEN Null
    ELSE LET medianHomePrice == medianHomePriceOf(census, threeBedroomRent(fmr))
             populationDensity == OrZero(loc.population)
         IN  calculateInvestmentScore(<<fmr, crime, medianHomePrice, populationDensity>>)

\* the useMemo of the pages in deps re-evaluated over the hook results
Memo(deps, old, zip, fmr, crime, loc, census) ==
    [p \in Pages |->
        IF p \notin deps THEN old[p]
        ELSE IF p = "search" THEN SearchPageMetrics(fmr, crime, loc, census)
        ELSE IF p = "app" THEN AppMetrics(zip, fmr, crime, census)
        ELSE ZipAnalysisMetrics(fmr, crime, loc, census)]

PageFmrs ==
    {Null, FmrOf(1200), FmrOf(2400), FmrOf(0)}
    \cup {[zip_code |-> "75001", data |-> [fmr_3 |-> Undefined, basicdata |-> b]] :
            b \in {Undefined,
                   [t |-> "object", ThreeBedroom |-> Num(1350)],
                   [t |-> "object", ThreeBedroom |-> Str(<<"1", "3", "5", "0">>)],
                   [t |-> "object", ThreeBedroom |-> Str(<<"N", "A">>)],
                   [t |-> "array", items |-> <<[zip_code |-> "75001", ThreeBedroom |-> Str(<<"1", "3", "5", "0">>)]>>],
                   [t |-> "array", items |-> <<[zip_code |-> "75002", ThreeBedroom |-> Str(<<" ", "8", "0", "0">>)]>>]}}

PageCrimes == {Null, BaseCrime, CrimeOf(2 * NATIONAL_VIOLENT_RATE, 2 * NATIONAL_PROPERTY_RATE)}

\* useCensusData keeps a median home value only if it is a positive number
PageCensus == {Null} \cup {[medianHomeValue |-> v] : v \in {60000, 100000}}

\* useZipCodeLookup leaves the population undefined
PageLocations == {Null} \cup {[zip |-> z, population |-> Undefined] : z \in Zips}

InitPages ==
    /\ args = <<Null, Null, 0>>
    /\ ret = Pending
    /\ currentZipCode \in Zips
    /\ fmrData = Null
    /\ crimeData = Null
    /\ censusData = Null
    /\ location = Null
    /\ investmentMetrics = NoMetrics
    /\ RestIdle

\* [zipCode, ...searchHistory.filter(z => z !== zipCode)] without the slice
newHistoryUnbounded(zipCode, history) ==
    <<zipCode>> \o SelectSeq(history, LAMBDA z : z # zipCode)

\* [zipCode, ...searchHistory.filter(z => z !== zipCode)].slice(0, 10)
newHistory(zipCode, history) ==
    LET list == <<zipCode>> \o SelectSeq(history, LAMBDA z : z # zipCode)
    IN  SubSeq(list, 1, IF Len(list) < 10 THEN Len(list) ELSE 10)

\* handleSearch: sets the current ZIP, which is not a dependency of any
\* investmentMetrics memo, so no memo is re-evaluated until a hook delivers
\* data, and puts the ZIP at the head of the search history
handleSearch(z) ==
    /\ currentZipCode' = z
    /\ searchHistory' = newHistory(z, searchHistory)
    /\ lastSearch' = [zipCode |-> z, before |-> searchHistory]
    /\ UNCHANGED <<fmrData, crimeData, censusData, location, investmentMetrics, scorerVars,
                   calcVars, cacheVars, watchVars, scrapeVars, lookups, listings, zipHook>>

\* useHUDData / useZipFMRData: setData
FmrLoaded(f) ==
    /\ fmrData' = f
    /\ investmentMetrics' = Memo(Pages, investmentMetrics, currentZipCode, f, crimeData, location, censusData)
    /\ UNCHANGED <<currentZipCode, crimeData, censusData, location, scorerVars, restVars>>

\* useCrimeData: setData
CrimeLoaded(c) ==
    /\ crimeData' = c
    /\ investmentMetrics' = Memo(Pages, investmentMetrics, currentZipCode, fmrData, c, location, censusData)
    /\ UNCHANGED <<currentZipCode, fmrData, censusData, location, scorerVars, restVars>>

\* useCensusData: setData
CensusLoaded(c) ==
    /\ censusData' = c
    /\ investmentMetrics' = Memo(Pages, investmentMetrics, currentZipCode, fmrData, crimeData, location, c)
    /\ UNCHANGED <<currentZipCode, fmrData, crimeData, location, scorerVars, restVars>>

\* useZipCodeLookup: setLocation; App's memo does not depend on the location
LocationLoaded(l) ==
    /\ location' = l
    /\ investmentMetrics' = Memo({"search", "metro"}, investmentMetrics, currentZipCode, fmrData, crimeData, l, censusData)
    /\ UNCHANGED <<currentZipCode, fmrData, crimeData, censusData, scorerVars, restVars>>

NextPages ==
    \/ \E z \in Zips : handleSearch(z) /\ UNCHANGED searches
    \/ \E f \in PageFmrs : FmrLoaded(f)
    \/ \E c \in PageCrimes : CrimeLoaded(c)
    \/ \E c \in PageCensus : CensusLoaded(c)
    \/ \E l \in PageLocations : LocationLoaded(l)

SpecPages == InitPages /\ [][NextPages]_vars

----------------------------------------------------------------------------
(* The scorer applied to one argument list *)

InitScorer ==
    /\ args \in ScorerInputs
    /\ ret = Pending
    /\ currentZipCode = "75001"
    /\ fmrData = Null
    /\ crimeData = Null
    /\ censusData = Null
    /\ location = Null
    /\ investmentMetrics = NoMetrics
    /\ RestIdle

CallScore ==
    /\ ret = Pending
    /\ ret' = calculateInvestmentScore(args)
    /\ UNCHANGED <<args, pageVars, restVars>>

NextScorer == CallScore

SpecScorer == InitScorer /\ [][NextScorer]_vars

\* the scorer not called and the pages without data
ScorerPagesIdle ==
    /\ args = <<Null, Null, 0>>
    /\ ret = Pending
    /\ currentZipCode = "75001"
    /\ fmrData = Null
    /\ crimeData = Null
    /\ censusData = Null
    /\ location = Null
    /\ investmentMetrics = NoMetrics

----------------------------------------------------------------------------
(* calculateMaxPrice applied to one set of inputs, one loop iteration at a  *)
(* time.  The inputs range over what the function accepts, which includes   *)
(* the zero interest rate and zero down payment its guards are written for. *)

SolverInputs ==
    [desiredCashFlow : {0, 200, 978, 980, 2000},
     downPaymentPercent : {0, 3, 20, 50},
     interestRate : {0, 30, 65, 120},
     propertyTaxRate : {3, 12, 30},
     insurance : {-75, 100},
     hoa : {0},
     vacancy : {0, 8},
     maintenance : {5, 10},
     propertyManagement : {0, 10},
     fmrRent : {1500, 6000}]

InitSolver ==
    /\ inputs \in SolverInputs
    /\ results = ZeroResults
    /\ search = NoSearch
    /\ isOpen = TRUE
    /\ effectDue = TRUE
    /\ CacheIdle
    /\ WatchIdle
    /\ ScrapeIdle
    /\ ScorerPagesIdle
    /\ HooksIdle

\* entry of calculateMaxPrice up to the feasibility test: the infeasible
\* branch sets the six results and returns, the other starts the search
EnterCalculateMaxPrice ==
    /\ search.pc = "idle"
    /\ isOpen
    /\ effectDue
    /\ effectDue' = FALSE
    /\ IF FxLeq(availableForDebtService(inputs), FxZero)
       THEN /\ results' = InfeasibleResults(inputs)
            /\ search' = [NoSearch EXCEPT !.pc = "done"]
       ELSE /\ search' = StartSearch
            /\ UNCHANGED results
    /\ UNCHANGED <<inputs, isOpen, otherThanCalc>>

\* one iteration of the search loop
SearchIteration ==
    /\ search.pc = "loop"
    /\ search' = LoopBody(inputs, search)
    /\ UNCHANGED <<inputs, results, isOpen, effectDue, otherThanCalc>>

\* the code after the loop: the final numbers and the six setters
SetFinalNumbers ==
    /\ search.pc = "final"
    /\ results' = FinalNumbers(inputs, search.bestPrice)
    /\ search' = [search EXCEPT !.pc = "done"]
    /\ UNCHANGED <<inputs, isOpen, effectDue, otherThanCalc>>

NextSolver ==
    \/ EnterCalculateMaxPrice
    \/ SearchIteration
    \/ SetFinalNumbers

SpecSolver == InitSolver /\ [][NextSolver]_vars

----------------------------------------------------------------------------
(* The mounted CashFlowCalculator: the user moves the controls, the parent  *)
(* opens and closes it and passes a new rent, and React runs the effect     *)
(* after the render in which one of its dependencies changed, before the    *)
(* next event is handled.  A call of calculateMaxPrice is one step.         *)

CalcRents == {1500, 6000}

\* the values a control is moved between, per input
ControlValues ==
    [desiredCashFlow |-> {200, 2000}, downPaymentPercent |-> {20, 3},
     interestRate |-> {65, 120}, propertyTaxRate |-> {12, 30},
     insurance |-> {100, 0}, hoa |-> {0, 50}, vacancy |-> {8, 0},
     maintenance |-> {10, 5}, propertyManagement |-> {10, 0}]

\* the dependency list of the effect
EffectDepsWithoutRent ==
    {"desiredCashFlow", "downPaymentPercent", "interestRate", "propertyTaxRate",
     "insurance", "hoa", "vacancy", "maintenance", "propertyManagement", "isOpen"}

EffectDeps ==
    {"desiredCashFlow", "downPaymentPercent", "interestRate", "propertyTaxRate",
     "insurance", "hoa", "vacancy", "maintenance", "propertyManagement", "fmrRent",
     "isOpen"}

InitCalculator ==
    /\ \E r \in CalcRents : inputs = DefaultInputs(r)
    /\ results = ZeroResults
    /\ search = NoSearch
    /\ isOpen = FALSE
    /\ effectDue = TRUE
    /\ CacheIdle
    /\ WatchIdle
    /\ ScrapeIdle
    /\ ScorerPagesIdle
    /\ HooksIdle

\* onChange of one of the nine controls, which are rendered only while open
SetInput(f, v) ==
    /\ isOpen
    /\ ~effectDue
    /\ inputs' = [inputs EXCEPT ![f] = v]
    /\ effectDue' = (f \in EffectDeps /\ v # inputs[f])
    /\ UNCHANGED <<results, search, isOpen, otherThanCalc>>

\* the parent renders the calculator with another fmrRent
RentChanged(r) ==
    /\ ~effectDue
    /\ inputs' = [inputs EXCEPT !.fmrRent = r]
    /\ effectDue' = ("fmrRent" \in EffectDeps /\ r # inputs.fmrRent)
    /\ UNCHANGED <<results, search, isOpen, otherThanCalc>>

\* MarketMetrics: setShowCalculator(true)
OpenCalculator ==
    /\ ~effectDue
    /\ ~isOpen
    /\ isOpen' = TRUE
    /\ effectDue' = ("isOpen" \in EffectDeps)
    /\ UNCHANGED <<inputs, results, search, otherThanCalc>>

\* onClose
CloseCalculator ==
    /\ ~effectDue
    /\ isOpen
    /\ isOpen' = FALSE
    /\ effectDue' = ("isOpen" \in EffectDeps)
    /\ UNCHANGED <<inputs, results, search, otherThanCalc>>

\* the effect: if (!isOpen) return; calculateMaxPrice()
RunEffect ==
    /\ effectDue
    /\ effectDue' = FALSE
    /\ results' = IF isOpen THEN calculateMaxPrice(inputs) ELSE results
    /\ UNCHANGED <<inputs, search, isOpen, otherThanCalc>>

NextCalculator ==
    \/ \E f \in DOMAIN ControlValues : \E v \in ControlValues[f] : SetInput(f, v)
    \/ \E r \in CalcRents : RentChanged(r)
    \/ OpenCalculator
    \/ CloseCalculator
    \/ RunEffect

SpecCalculator == InitCalculator /\ [][NextCalculator]_vars

----------------------------------------------------------------------------
(* The cache under reads, writes and the passing of time *)

MaxNow == 31            \* the clock runs from day 0 to day MaxNow

CacheKeys == {"cache_hud_fmr_75001", "cache_zipcode_75001"}
CacheData == {[zip_code |-> "75001"], [zip_code |-> "75002"]}

InitCache ==
    /\ localStorage = [k \in CacheKeys |-> NoItem]
    /\ now = 0
    /\ got = [key |-> "", ret |-> Pending]
    /\ CalcIdle
    /\ WatchIdle
    /\ ScrapeIdle
    /\ ScorerPagesIdle
    /\ HooksIdle

\* a hook reads its key
ReadCache(key) ==
    LET r == getCachedData(localStorage, key, now)
    IN  /\ got' = [key |-> key, ret |-> r.ret]
        /\ localStorage' = r.store
        /\ UNCHANGED <<now, otherThanCache>>

\* a hook stores what it fetched
WriteCache(key, data, stored) ==
    /\ localStorage' = setCachedData(localStorage, key, data, now, stored)
    /\ got' = [key |-> "", ret |-> Pending]
    /\ UNCHANGED <<now, otherThanCache>>

\* Date.now() moves on by a day or by the cache duration
TimePasses(d) ==
    /\ now + d <= MaxNow
    /\ now' = now + d
    /\ got' = [key |-> "", ret |-> Pending]
    /\ UNCHANGED <<localStorage, otherThanCache>>

NextCache ==
    \/ \E k \in CacheKeys : ReadCache(k)
    \/ \E k \in CacheKeys : \E d \in CacheData : \E stored \in BOOLEAN : WriteCache(k, d, stored)
    \/ \E d \in {1, CACHE_DURATION_DAYS} : TimePasses(d)

SpecCache == InitCache /\ [][NextCache]_vars

----------------------------------------------------------------------------
(* The watchlist under saves and trash-icon clicks on either page *)

WatchZips == {"75001", "75002", "75003"}

\* the ids generateId hands out: `${Date.now()}-${random}`, never a ZIP code
WatchIds == {"1762300000000-k3j9x2m1q", "1762300000001-8fj2kd0az", "1762300000002-zz81mcq0p"}

IdsOf(list) == {list[i].id : i \in DOMAIN list}
ZipsOf(list) == {list[i].zipCode : i \in DOMAIN list}

InitWatch ==
    /\ WatchIdle
    /\ CalcIdle
    /\ CacheIdle
    /\ ScrapeIdle
    /\ ScorerPagesIdle
    /\ HooksIdle

\* App.handleSaveToWatchlist for the current ZIP, with the id generateId returns
handleSaveToWatchlist(zipCode, id) ==
    /\ zipCode \notin ZipsOf(savedSearches)
    /\ id \notin IdsOf(savedSearches)
    /\ savedSearches' = <<SavedSearch(id, zipCode)>> \o savedSearches
    /\ removeClick' = NoClick
    /\ UNCHANGED otherThanWatch

\* the trash icon of the item with this id, on a page: onRemove(search.id)
ClickTrash(page, id) ==
    /\ id \in IdsOf(savedSearches)
    /\ savedSearches' = handleRemoveFromWatchlist(page, savedSearches, id)
    /\ removeClick' = [page |-> page, id |-> id, before |-> savedSearches]
    /\ UNCHANGED otherThanWatch

NextWatch ==
    \/ \E z \in WatchZips : \E id \in WatchIds : handleSaveToWatchlist(z, id)
    \/ \E p \in WatchPages : \E id \in WatchIds : ClickTrash(p, id)

SpecWatch == InitWatch /\ [][NextWatch]_vars

----------------------------------------------------------------------------
(* The scrape-listings handler applied to one event *)

\* bodies: none, empty, malformed, JSON values without fields, and objects
\* whose fields are absent, null, falsy or truthy
Bodies ==
    {Null, EmptyText, MalformedText, JSONOf(Null), JSONOf(Num(5))}
    \cup {JSONOf(Object(z, p, b)) :
            z \in {Undefined, Null, Str(<<>>), Str(<<"7", "5", "0", "0", "1">>)},
            p \in {Undefined, Num(0), Num(150000)},
            b \in {Undefined, Num(0), Num(3)}}

\* what fetch does: it rejects, answers not-ok, or answers with a page in
\* which the five patterns capture these texts
Fetches ==
    {[t |-> "rejected", message |-> "fetch failed"],
     [t |-> "response", ok |-> FALSE, status |-> "403", statusText |-> "Forbidden",
      matches |-> <<>>]}
    \cup {[t |-> "response", ok |-> TRUE, status |-> "200", statusText |-> "OK", matches |-> m] :
            m \in {<<Null, Null, Null, Null, Null>>,
                   <<Str(<<"1", "2">>), Null, Null, Null, Null>>,
                   <<Str(<<"1", ",", "2", "3", "4">>), Null, Str(<<"7">>), Null, Null>>,
                   <<Null, Str(<<"4", "2">>), Null, Str(<<"9">>), Null>>,
                   <<Null, Null, Str(<<"7">>), Null, Null>>}}

InitScrape ==
    /\ event \in [httpMethod : {"OPTIONS", "POST", "GET", "PUT"}, body : Bodies]
    /\ fetched \in Fetches
    /\ response = Pending
    /\ WatchIdle
    /\ CalcIdle
    /\ CacheIdle
    /\ ScorerPagesIdle
    /\ HooksIdle

CallHandler ==
    /\ response = Pending
    /\ response' = handler(event, fetched)
    /\ UNCHANGED <<event, fetched, otherThanScrape>>

NextScrape == CallHandler

SpecScrape == InitScrape /\ [][NextScrape]_vars

----------------------------------------------------------------------------
(* useZipCodeLookup under lookups, geocoder answers and the passing of      *)
(* time.  No FMR data is loaded, so the pages' metrics stay null.           *)

LookupZips == {"75001", "75002"}
LookupKeys == {getCacheKey("zipcode", z) : z \in LookupZips}

\* what the geocoders can answer for a ZIP code
GeocoderAnswers ==
    {[t |-> "fail", message |-> m, county |-> <<>>, displayCounty |-> <<>>, fcc |-> <<>>,
      state |-> ""] :
        m \in {"Failed to fetch location data", "ZIP code not found", "AbortError"}}
    \cup {[t |-> "result", message |-> "", county |-> c, displayCounty |-> d, fcc |-> f, state |-> s] :
            c \in {<<>>, <<"Dallas">>, <<"Dallas", "County">>},
            d \in {<<>>, <<"Dallas", "county">>},
            f \in {<<>>, <<"Collin">>, <<"Unknown">>},
            s \in {"Texas"}}

\* entries the storage may hold from before: none, a resolved location, or
\* an 'Unknown County' location left by an earlier version of the page
EarlierEntries(z) ==
    {NoItem,
     JSONstringify([data |-> [zip |-> z, county |-> <<"Dallas", "County">>, state |-> "Texas",
                              population |-> Undefined],
                    timestamp |-> 0, expiresAt |-> CACHE_DURATION_DAYS]),
     JSONstringify([data |-> [zip |-> z, county |-> UnknownCounty, state |-> "Texas",
                              population |-> Undefined],
                    timestamp |-> 0, expiresAt |-> CACHE_DURATION_DAYS])}

otherThanLookup ==
    <<scorerVars, currentZipCode, fmrData, crimeData, censusData, investmentMetrics,
      calcVars, now, watchVars, scrapeVars, historyVars, listings, zipHook>>

InitLookup ==
    /\ localStorage \in [LookupKeys -> UNION {EarlierEntries(z) : z \in LookupZips}]
    /\ \A z \in LookupZips : localStorage[getCacheKey("zipcode", z)] \in EarlierEntries(z)
    /\ now = 0
    /\ got = [key |-> "", ret |-> Pending]
    /\ CalcIdle
    /\ WatchIdle
    /\ ScrapeIdle
    /\ ScorerPagesIdle
    /\ HooksIdle

\* the five-character ZIP codes among those looked up
HasFiveCharacters(zipCode) == zipCode \in LookupZips

\* fetchData for a ZIP code that is empty or not five characters long
LookupInvalid(zipCode) ==
    /\ zipCode = "" \/ ~HasFiveCharacters(zipCode)
    /\ location' = Null
    /\ lookups' = [lookups EXCEPT !.last = [op |-> "invalid"]]
    /\ UNCHANGED <<localStorage, got, otherThanLookup>>

\* fetchData up to its first await: serve the cache or ask the geocoder
LookupStart(zipCode) ==
    LET cacheKey == getCacheKey("zipcode", zipCode)
        r == getCachedData(localStorage, cacheKey, now)
    IN  /\ zipCode # "" /\ HasFiveCharacters(zipCode)
        /\ got' = [key |-> cacheKey, ret |-> r.ret]
        /\ localStorage' = r.store
        /\ IF UseCached(r.ret)
           THEN /\ location' = r.ret
                /\ lookups' = [lookups EXCEPT
                     !.last = [op |-> "served", zipCode |-> zipCode, cached |-> r.ret]]
           ELSE /\ location' = location
                /\ lookups' = [lookups EXCEPT
                     !.pending = @ \cup {zipCode},
                     !.last = [op |-> "queried", zipCode |-> zipCode, cached |-> r.ret]]
        /\ UNCHANGED otherThanLookup

\* fetchData after its awaits: the geocoders answered; stored tells whether
\* localStorage.setItem succeeds
LookupAnswered(zipCode, answer, stored) ==
    /\ zipCode \in lookups.pending
    /\ IF answer.t = "fail"
       THEN /\ location' = Null
            /\ lookups' = [lookups EXCEPT
                 !.pending = @ \ {zipCode},
                 !.last = [op |-> "failed", zipCode |-> zipCode]]
            /\ UNCHANGED localStorage
       ELSE LET locationData == locationDataOf(zipCode, answer)
                cacheIt == locationData.county # UnknownCounty
            IN  /\ localStorage' =
                     IF cacheIt
                     THEN setCachedData(localStorage, getCacheKey("zipcode", zipCode),
                                        locationData, now, stored)
                     ELSE localStorage
                /\ location' = locationData
                /\ lookups' = [pending |-> lookups.pending \ {zipCode},
                               last |-> [op |-> "resolved", zipCode |-> zipCode,
                                         data |-> locationData, cached |-> cacheIt]]
    /\ UNCHANGED <<got, otherThanLookup>>

NextLookup ==
    \/ \E z \in {"", "7500"} : LookupInvalid(z)
    \/ \E z \in LookupZips : LookupStart(z)
    \/ \E z \in LookupZips : \E a \in GeocoderAnswers : \E stored \in BOOLEAN :
          LookupAnswered(z, a, stored)
    \/ TimePasses(CACHE_DURATION_DAYS + 1)

SpecLookup == InitLookup /\ [][NextLookup]_vars

----------------------------------------------------------------------------
(* The search history under searches on either page.  The list starts as a  *)
(* page finds it in localStorage: any number of earlier searches, up to ten *)

MaxSearches == 3        \* searches made after the page mounted

HistoryZips ==
    {"75001", "75002", "75003", "75004", "75005", "75006", "75007", "75008", "75009",
     "75010", "75011"}

\* ten earlier searches, the latest first
EarlierSearches ==
    <<"75010", "75009", "75008", "75007", "75006", "75005", "75004", "75003", "75002",
      "75001">>

InitHistory ==
    /\ \E n \in 0..Len(EarlierSearches) :
          searchHistory = SubSeq(EarlierSearches, Len(EarlierSearches) - n + 1,
                                 Len(EarlierSearches))
    /\ lastSearch = [zipCode |-> "", before |-> <<>>]
    /\ searches = 0
    /\ listings = ListingUnmounted
    /\ zipHook = HookMounted("useHUDData")
    /\ lookups = [pending |-> {}, last |-> [op |-> "none"]]
    /\ args = <<Null, Null, 0>>
    /\ ret = Pending
    /\ currentZipCode \in HistoryZips
    /\ fmrData = Null
    /\ crimeData = Null
    /\ censusData = Null
    /\ location = Null
    /\ investmentMetrics = NoMetrics
    /\ CalcIdle
    /\ CacheIdle
    /\ WatchIdle
    /\ ScrapeIdle

\* the search form or a history button calls handleSearch
Search(z) ==
    /\ searches < MaxSearches
    /\ searches' = searches + 1
    /\ handleSearch(z)

NextHistory == \E z \in HistoryZips : Search(z)

SpecHistory == InitHistory /\ [][NextHistory]_vars

----------------------------------------------------------------------------
(* Properties of the scorer *)

Scored == ret # Pending /\ ret # Null

\* the rent given directly as fmr_3, 0 if the argument list has none
Fmr3Rent == IF args[1] # Null THEN OrZero(args[1].data.fmr_3) ELSE 0

HasDensity == Len(args) >= 4

\* C1: for every input with 3BR rent > 0 and home price > 0 the call returns
\* a composite score in 0..100, and the three normalized weights sum to 1
C1_ScoreInRangeWeightsSumToOne ==
    (ret # Pending /\ args[1] # Null /\ args[3] > 0
        /\ threeBedroomRent(args[1]) # NaN /\ threeBedroomRent(args[1]) > 0)
    => /\ ret # Null
       /\ ret.score \in 0..100
       /\ LET w == NormalizedWeights(ret.breakdown.crimeScore, ret.breakdown.densityScore)
          IN  RatAdd(RatAdd(w.fmr, w.crime), w.density) = RatInt(1)

C1_Witness ==
    /\ Scored
    /\ args[3] > 0
    /\ args[2] # Null
    /\ HasDensity
    /\ ret.score = 100

\* C2: the three whole-percent weights of the breakdown sum to exactly 100
C2_WeightPercentsSumTo100 ==
    Scored =>
        ret.breakdown.fmrWeight + ret.breakdown.crimeWeight + ret.breakdown.densityWeight = 100

\* the weight looked up from the crime sub-score, in hundredths
ClaimedCrimeWeight(c) ==
    IF c >= 80 THEN 15 ELSE IF c >= 60 THEN 18 ELSE IF c >= 40 THEN 22
    ELSE IF c >= 20 THEN 26 ELSE 30

\* the weight looked up from the density sub-score, in hundredths
ClaimedDensityWeight(d) ==
    IF d >= 60 THEN 10 ELSE IF d >= 40 THEN 15 ELSE IF d >= 20 THEN 20 ELSE 25

CarriesNoRent(f) ==
    /\ f.data.fmr_3 \in {Undefined, Num(0)}
    /\ \/ f.data.basicdata = Undefined
       \/ /\ f.data.basicdata.t = "object"
          /\ f.data.basicdata.ThreeBedroom \in {Undefined, Num(0), Str(<<>>)}
       \/ /\ f.data.basicdata.t = "array"
          /\ \A i \in 1..Len(f.data.basicdata.items) :
                f.data.basicdata.items[i].zip_code = f.zip_code
                => f.data.basicdata.items[i].ThreeBedroom \in {Undefined, Str(<<>>)}

\* C4: the call returns null when the FMR data is missing or carries no 3BR
\* rent, and a returned score is never computed from a rent of 0 (its 2%-rule
\* price, round(rent / 0.02), is not 0)
C4_NullWithoutRent ==
    ret # Pending =>
        /\ args[1] = Null => ret = Null
        /\ (args[1] # Null /\ CarriesNoRent(args[1])) => ret = Null
        /\ ret # Null => ret.estimatedPriceRange.high # 0

C4_Witness ==
    /\ ret = Null
    /\ args[1] # Null
    /\ args[1].data.basicdata.t = "array"
    /\ Len(args[1].data.basicdata.items) = 2
    /\ args[1].data.basicdata.items[2].zip_code = args[1].zip_code

ClaimedRentScore(rent, price) ==
    IF 100 * rent >= 2 * price THEN 100
    ELSE IF 1000 * rent >= 15 * price THEN 75
    ELSE IF 100 * rent >= price THEN 50
    ELSE 25

\* C7: for a positive price the rent-ratio sub-score is the step function of
\* rent / price (100, 75, 50, 25 at 2%, 1.5%, 1%), no input with a ratio at
\* least as high scores lower, and rent 1,200 on price 100,000 scores 50
C7_RentScoreStepFunction ==
    (Scored /\ Fmr3Rent > 0 /\ args[3] > 0) =>
        /\ ret.breakdown.fmrScore = ClaimedRentScore(Fmr3Rent, args[3])
        /\ \A r2 \in Rents, h2 \in Prices \ {0} :
              r2 * args[3] >= Fmr3Rent * h2
              => calculateFMRScore(r2, h2) >= ret.breakdown.fmrScore
        /\ (Fmr3Rent = 1200 /\ args[3] = 100000) => ret.breakdown.fmrScore = 50

C7_Witness ==
    /\ Scored
    /\ Fmr3Rent = 2500
    /\ args[3] = 125000
    /\ ret.breakdown.fmrScore = 100

\* the 1-10 danger scale of rate / base on integers
ClaimedScale(rate, base) ==
    IF 10 * rate <= 3 * base THEN 1
    ELSE IF 10 * rate <= 5 * base THEN 2
    ELSE IF 10 * rate <= 7 * base THEN 3
    ELSE IF 10 * rate <= 9 * base THEN 4
    ELSE IF 10 * rate <= 11 * base THEN 5
    ELSE IF 10 * rate <= 13 * base THEN 6
    ELSE IF 10 * rate <= 15 * base THEN 7
    ELSE IF 10 * rate <= 18 * base THEN 8
    ELSE IF 10 * rate <= 22 * base THEN 9
    ELSE 10

C9_CrimeScoreMonotone ==
    (Scored /\ args[2] # Null) =>
        /\ \A v2 \in FineViolentRates :
              v2 >= args[2].violent_crime_rate
              => calculateCrimeScore(CrimeOf(v2, args[2].property_crime_rate))
                    <= ret.breakdown.crimeScore
        /\ \A p2 \in FinePropertyRates :
              p2 >= args[2].property_crime_rate
              => calculateCrimeScore(CrimeOf(args[2].violent_crime_rate, p2))
                    <= ret.breakdown.crimeScore

C9_Witness ==
    /\ Scored
    /\ args[2] # Null
    /\ args[2].violent_crime_rate > 2 * NATIONAL_VIOLENT_RATE
    /\ args[2].property_crime_rate < NATIONAL_PROPERTY_RATE
    /\ ret.breakdown.crimeScore = 40

\* C10: the grade is A/B/C/D/F at 90/80/70/60, the recommendation is
\* Excellent/Good/Fair/Avoid at 80/60/40, so A and B pair with Excellent,
\* C and D with Good, and F with Fair or Avoid
C10_GradeAndRecommendation ==
    /\ Scored =>
        /\ ret.grade = (IF ret.score >= 90 THEN "A" ELSE IF ret.score >= 80 THEN "B"
                        ELSE IF ret.score >= 70 THEN "C" ELSE IF ret.score >= 60 THEN "D"
                        ELSE "F")
        /\ ret.recommendation = (IF ret.score >= 80 THEN "Excellent"
                                 ELSE IF ret.score >= 60 THEN "Good"
                                 ELSE IF ret.score >= 40 THEN "Fair" ELSE "Avoid")
        /\ ret.grade \in {"A", "B"} => ret.recommendation = "Excellent"
        /\ ret.grade \in {"C", "D"} => ret.recommendation = "Good"
        /\ ret.grade = "F" => ret.recommendation \in {"Fair", "Avoid"}
    /\ \A s \in 0..100 :
        /\ scoreToGrade(s) \in {"A", "B"} <=> scoreToRecommendation(s) = "Excellent"
        /\ scoreToGrade(s) \in {"C", "D"} <=> scoreToRecommendation(s) = "Good"
        /\ scoreToGrade(s) = "F" <=> scoreToRecommendation(s) \in {"Fair", "Avoid"}

C10_Witness ==
    /\ Scored
    /\ ret.score = 80
    /\ ret.grade = "B"
    /\ ret.recommendation = "Excellent"

----------------------------------------------------------------------------
(* Properties of the pages *)

\* C6: every page passes the median home price (Census value, else the
\* estimate) as the home price, so the result's averageHomeCost is that price,
\* and the search page and the metro ZIP view get the same rent-ratio
\* sub-score, density sub-score and rent-to-price ratio from the same data
C6_CallersAgree ==
    /\ \A p \in Pages :
          (investmentMetrics[p] # Null /\ censusData # Null)
          => investmentMetrics[p].averageHomeCost = censusData.medianHomeValue
    /\ (investmentMetrics["search"] # Null /\ investmentMetrics["metro"] # Null)
       => /\ investmentMetrics["search"].breakdown.fmrScore
                = investmentMetrics["metro"].breakdown.fmrScore
          /\ investmentMetrics["search"].breakdown.densityScore
                = investmentMetrics["metro"].breakdown.densityScore
          /\ investmentMetrics["search"].rentToPriceRatio
                = investmentMetrics["metro"].rentToPriceRatio

----------------------------------------------------------------------------
(* Properties of the cash-flow calculator *)

\* calculateMaxPrice has returned
Returned == search.pc = "done"

\* the amount available for debt service in hundredths of a dollar:
\* rent * (1 - vacancy%) - (insurance + HOA + rent * maintenance%
\* + rent * propertyMgmt%) - desired cash flow
Available100(in) ==
    in.fmrRent * (100 - in.vacancy)
    - (100 * (in.insurance + in.hoa) + in.fmrRent * (in.maintenance + in.propertyManagement))
    - 100 * in.desiredCashFlow

\* the fixed operating costs in hundredths of a dollar
FixedCosts100(in) ==
    100 * (in.insurance + in.hoa) + in.fmrRent * (in.maintenance + in.propertyManagement)

\* the search never started: its bounds were never set
NoSearchRan == search.low = FxZero /\ search.high = FxZero /\ search.i = 0

\* C11 as stated: if the amount available for debt service is <= 0 the
\* calculator reports price 0, mortgage 0, cash-on-cash 0 and cap rate 0,
\* reports the fixed operating costs as a nonzero total monthly expenses, and
\* does not run the search
C11_InfeasibleNonzeroExpenses ==
    (Returned /\ Available100(inputs) <= 0)
    => /\ results.maxPurchasePrice = FxZero
       /\ results.monthlyMortgage = FxZero
       /\ results.cashOnCashReturn = FxZero
       /\ results.capRate = FxZero
       /\ FxMulInt(results.totalMonthlyExpenses, 100) = FxInt(FixedCosts100(inputs))
       /\ results.totalMonthlyExpenses # FxZero
       /\ NoSearchRan

\* C11 amended: the same report, whose total monthly expenses are the fixed
\* operating costs whatever they are, nonzero exactly when those are
C11_InfeasibleReportsFixedCosts ==
    (Returned /\ Available100(inputs) <= 0)
    => /\ results.maxPurchasePrice = FxZero
       /\ results.monthlyMortgage = FxZero
       /\ results.cashOnCashReturn = FxZero
       /\ results.capRate = FxZero
       /\ FxMulInt(results.totalMonthlyExpenses, 100) = FxInt(FixedCosts100(inputs))
       /\ FixedCosts100(inputs) # 0 => results.totalMonthlyExpenses # FxZero
       /\ NoSearchRan

C11_Witness ==
    /\ Returned
    /\ Available100(inputs) = 0
    /\ results.maxPurchasePrice = FxZero
    /\ results.totalMonthlyExpenses = FxInt(400)
    /\ NoSearchRan

\* C12: price 0 is reported if and only if the amount available for debt
\* service is <= 0; when it is > 0 the reported price is strictly positive
\* and within the search range [1,000, 2,000,000]
C12_ZeroPriceIffInfeasible ==
    Returned
    => /\ (results.maxPurchasePrice = FxZero) <=> (Available100(inputs) <= 0)
       /\ Available100(inputs) > 0
          => /\ FxLess(FxZero, results.maxPurchasePrice)
             /\ FxLeq(FxInt(1000), results.maxPurchasePrice)
             /\ FxLeq(results.maxPurchasePrice, FxInt(2000000))

\* a feasible search that ran down to the lower end of the range
C12_Witness ==
    /\ Returned
    /\ Available100(inputs) = 200
    /\ results.maxPurchasePrice = FxInt(1000)

\* the debt service recomputed at the returned price
RecomputedDebtService == debtService(inputs, results.maxPurchasePrice)

\* |a - b| < 10
WithinTen(a, b) == FxLess(FxSub(a, b), FxInt(10)) /\ FxLess(FxSub(b, a), FxInt(10))

\* C13 as stated: for every input with a positive amount available for debt
\* service, the debt service recomputed at the returned price differs from
\* that amount by less than $10
C13_RoundTripWithinTen ==
    (Returned /\ Available100(inputs) > 0)
    => WithinTen(RecomputedDebtService, availableForDebtService(inputs))

\* the last candidate of a search that only ever moved up:
\* 2,000,000 - 1,999,000 / 2^21
TopCandidate == FxSub(FxInt(2000000), FxDivInt(FxDivInt(FxInt(1999000), 2048), 1024))

\* C13 amended: the recomputed debt service is within $10 of the amount
\* available unless the range ends first: when the debt service of a $1,000
\* price already exceeds the amount by $10 or more the price is 1,000, and
\* when the debt service of the last candidate below $2,000,000 still falls
\* short of it by $10 or more the price is that candidate
C13_RoundTripWithinRange ==
    LET avail == availableForDebtService(inputs)
    IN  (Returned /\ Available100(inputs) > 0)
        => IF FxLeq(FxAdd(avail, FxInt(10)), debtService(inputs, FxInt(1000)))
           THEN results.maxPurchasePrice = FxInt(1000)
           ELSE IF FxLeq(debtService(inputs, TopCandidate), FxSub(avail, FxInt(10)))
           THEN results.maxPurchasePrice = TopCandidate
           ELSE WithinTen(RecomputedDebtService, avail)

\* an accepted price strictly inside the range
C13_Witness ==
    /\ Returned
    /\ inputs = DefaultInputs(1500)
    /\ FxLess(FxInt(129841), results.maxPurchasePrice)
    /\ FxLess(results.maxPurchasePrice, FxInt(129842))
    /\ WithinTen(RecomputedDebtService, FxInt(780))

\* the candidate of the iteration about to run
Candidate == FxDivInt(FxAdd(search.low, search.high), 2)

SearchStarted == search.pc # "idle" /\ ~NoSearchRan

\* C14 (states): a running search has made fewer than 100 iterations, its
\* bounds satisfy 1,000 <= low <= high <= 2,000,000, and it does not go on
\* once the interval is below $1; what it returns is its best price
C14_SearchBounds ==
    /\ search.i < 100
    /\ SearchStarted
       => /\ FxLeq(FxInt(1000), search.low)
          /\ FxLeq(search.low, search.high)
          /\ FxLeq(search.high, FxInt(2000000))
    /\ search.pc = "loop" => ~FxLess(FxSub(search.high, search.low), FxInt(1))
    /\ (Returned /\ SearchStarted) => results.maxPurchasePrice = search.bestPrice

\* C14 (steps): an iteration either ends the search or is counted, and one
\* that leaves the interval below $1 without its candidate being within
\* tolerance ends the search with the lower bound as the best price
C14_SearchStep ==
    (search.pc = "loop")
    => /\ search'.pc = "final" \/ (search'.pc = "loop" /\ search'.i = search.i + 1)
       /\ (/\ FxLess(FxSub(search'.high, search'.low), FxInt(1))
           /\ ~WithinTen(debtService(inputs, Candidate), availableForDebtService(inputs)))
          => (search'.pc = "final" /\ search'.bestPrice = search'.low)

\* C14: for every input with a positive amount available the search ends
\* within 100 iterations, at every iteration 1,000 <= low <= high <=
\* 2,000,000, and if the interval shrinks below $1 without a candidate within
\* tolerance the search stops and returns the lower bound
C14_SearchTerminatesInRange == [](C14_SearchBounds) /\ [][C14_SearchStep]_vars

\* a search that stopped on the collapsed interval after its 21st iteration
C14_Witness ==
    /\ Returned
    /\ search.i = 20
    /\ FxLess(FxSub(search.high, search.low), FxInt(1))
    /\ results.maxPurchasePrice = search.low
    /\ search.low = TopCandidate

\* C15: with interest rate 0 the mortgage is loanAmount / 360 at every
\* candidate and at the final price; a down payment of 0 dollars gives
\* cash-on-cash 0; price 0 gives cap rate 0; down payments of 3% and 50%
\* give a finite cash-on-cash return, and no result is ever NaN or infinite
C15_DegenerateInputsDefined ==
    /\ (inputs.interestRate = 0 /\ search.pc = "loop")
       => mortgage(inputs, Candidate)
             = FxDivInt(PercentOf(Candidate, 100 - inputs.downPaymentPercent), 360)
    /\ (inputs.interestRate = 0 /\ Returned /\ SearchStarted)
       => results.monthlyMortgage
             = FxDivInt(PercentOf(results.maxPurchasePrice, 100 - inputs.downPaymentPercent), 360)
    /\ (Returned /\ PercentOf(results.maxPurchasePrice, inputs.downPaymentPercent) = FxZero)
       => results.cashOnCashReturn = FxZero
    /\ (Returned /\ results.maxPurchasePrice = FxZero) => results.capRate = FxZero
    /\ (Returned /\ inputs.downPaymentPercent \in {3, 50})
       => FxIsFinite(results.cashOnCashReturn)
    /\ \A k \in DOMAIN results : FxIsFinite(results[k])

\* a zero-rate, zero-down search that found a price
C15_Witness ==
    /\ Returned
    /\ inputs.interestRate = 0
    /\ inputs.downPaymentPercent = 0
    /\ inputs.desiredCashFlow = 200
    /\ FxLess(FxInt(1000), results.maxPurchasePrice)
    /\ results.monthlyMortgage = FxDivInt(results.maxPurchasePrice, 360)
    /\ results.cashOnCashReturn = FxZero
    /\ FxLess(FxZero, results.capRate)

\* C16: whenever the calculator is open and its effect has run, the six
\* results are the solver's output for the current inputs
C16_ResultsAreCurrent ==
    (isOpen /\ ~effectDue) => results = calculateMaxPrice(inputs)

\* open, after the controls and the rent were changed, showing a search result
C16_Witness ==
    /\ isOpen
    /\ ~effectDue
    /\ inputs.fmrRent = 6000
    /\ inputs.interestRate = 120
    /\ inputs.hoa = 50
    /\ results = calculateMaxPrice(inputs)
    /\ FxLess(FxInt(1000), results.maxPurchasePrice)

----------------------------------------------------------------------------
(* The documented weights of the investment score (README) *)

\* C17: the investment score is the fixed-weight sum 40% FMR-to-price
\* sub-score + 40% crime-safety sub-score + 20% population-density sub-score,
\* for every combination of sub-scores
C17_FixedWeights ==
    Scored
    => ret.score
          = MathRound(RatAdd(RatAdd(RatMul(Rat(40, 100), RatInt(ret.breakdown.fmrScore)),
                                    RatMul(Rat(40, 100), RatInt(ret.breakdown.crimeScore))),
                             RatMul(Rat(20, 100), RatInt(ret.breakdown.densityScore))))

----------------------------------------------------------------------------
(* Properties of the cache *)

Stored(key) == localStorage[key] # NoItem
EntryOf(key) == JSONparse(localStorage[key])

\* C18 (states): every entry expires 30 days after it was set; a read that
\* returned a value returned the stored one, on a day not past its
\* expiresAt; a read that returned null left no entry under its key
C18_ReadResult ==
    /\ \A k \in CacheKeys : Stored(k) => EntryOf(k).expiresAt = EntryOf(k).timestamp + 30
    /\ got.ret \notin {Pending, Null}
       => /\ Stored(got.key)
          /\ got.ret = EntryOf(got.key).data
          /\ now <= EntryOf(got.key).expiresAt
    /\ got.ret = Null => ~Stored(got.key)

\* C18 (steps): a read of an entry not past its expiresAt returns its value
\* and keeps it; a key without an entry stays without one, and so reads as
\* null, until it is set again
C18_ReadStep ==
    /\ \A k \in CacheKeys :
          (Stored(k) /\ now <= EntryOf(k).expiresAt /\ got'.key = k /\ got'.ret # Pending)
          => (got'.ret = EntryOf(k).data /\ localStorage'[k] = localStorage[k])
    /\ \A k \in CacheKeys :
          (~Stored(k) /\ localStorage'[k] # NoItem)
          => JSONparse(localStorage'[k]).timestamp = now

\* C18: getCachedData returns a stored value only while the current time is
\* not past the entry's expiresAt, which is the time of setCachedData plus
\* 30 days; the first read after that returns null and removes the entry,
\* and later reads return null until the key is set again
C18_CacheLivesThirtyDays == [](C18_ReadResult) /\ [][C18_ReadStep]_vars

\* a value read on the very day its entry expires
C18_Witness ==
    /\ got.ret \in CacheData
    /\ now = 30
    /\ EntryOf(got.key).expiresAt = 30

\* the read after that day found the entry expired and removed it
C18_WitnessExpired ==
    /\ got.ret = Null
    /\ now = 31
    /\ ~Stored(got.key)

----------------------------------------------------------------------------
(* Properties of the watchlist *)

\* C19: clicking the trash icon of a watchlist item removes exactly that
\* saved search from saved_searches and leaves every other saved search
\* unchanged, on every page that renders the watchlist
C19_TrashRemovesExactlyThatItem ==
    removeClick # NoClick
    => savedSearches = SelectSeq(removeClick.before, LAMBDA s : s.id # removeClick.id)

----------------------------------------------------------------------------
(* Properties of the scrape-listings handler *)

Answered == response # Pending

\* the body as the request's sender wrote it: no text, no JSON, or a value
BodyMalformed == event.body # Null /\ ~event.body.empty /\ ~event.body.valid
BodyValue ==
    IF event.body = Null \/ event.body.empty THEN Object(Undefined, Undefined, Undefined)
    ELSE event.body.value

\* a field of the body that is missing or falsy
Lacks(name) ==
    \/ BodyValue.t # "object"
    \/ BodyValue[name] \in {Undefined, Null, Num(0), Str(<<>>)}

BodyParsingThrows == BodyMalformed \/ (~BodyMalformed /\ BodyValue = Null)
LacksParameter == Lacks("zipCode") \/ Lacks("maxPrice") \/ Lacks("minBeds")
ScrapeThrows == fetched.t = "rejected" \/ ~fetched.ok

\* C20: OPTIONS gives 200 with an empty body; any other non-POST method
\* gives 405; a POST whose body lacks (or has falsy) zipCode, maxPrice or
\* minBeds gives 400; a POST whose scrape or body parsing throws gives 500
\* with success = false and an error message; otherwise 200 with success =
\* true and the count; and every response carries the CORS headers
C20_ResponseTable ==
    Answered
    => /\ response.headers.AccessControlAllowOrigin = "*"
       /\ response.headers.AccessControlAllowHeaders = "Content-Type"
       /\ response.headers.AccessControlAllowMethods = "POST, OPTIONS"
       /\ CASE event.httpMethod = "OPTIONS" ->
                 response.statusCode = 200 /\ response.body = EmptyText
            [] event.httpMethod \notin {"OPTIONS", "POST"} ->
                 response.statusCode = 405
            [] event.httpMethod = "POST" /\ BodyParsingThrows ->
                 /\ response.statusCode = 500
                 /\ response.body.success = FALSE
                 /\ response.body.error # ""
            [] event.httpMethod = "POST" /\ ~BodyParsingThrows /\ LacksParameter ->
                 response.statusCode = 400
            [] event.httpMethod = "POST" /\ ~BodyParsingThrows /\ ~LacksParameter
                  /\ ScrapeThrows ->
                 /\ response.statusCode = 500
                 /\ response.body.success = FALSE
                 /\ response.body.error # ""
            [] OTHER ->
                 /\ response.statusCode = 200
                 /\ response.body.success = TRUE
                 /\ response.body.count \in Nat

\* a complete request whose page showed "1,234 homes"
C20_Witness ==
    /\ Answered
    /\ event.httpMethod = "POST"
    /\ response.statusCode = 200
    /\ response.body.success = TRUE
    /\ response.body.count = 1234

----------------------------------------------------------------------------
(* Properties across components *)

----------------------------------------------------------------------------
(* Monotonicity of the calculator and of the scorer *)

\* increases of the desired monthly cash flow: inside and outside the $10
\* tolerance of the search, and large ones
CashFlowIncreases == {1, 9, 11, 25, 500}

PriceFor(in) == calculateMaxPrice(in).maxPurchasePrice

\* C24: for fixed rent and financing assumptions the reported maximum
\* purchase price is non-increasing in the desired monthly cash flow, across
\* the infeasible branch and the search branch, despite the $10 tolerance
C24_PriceNonIncreasingInCashFlow ==
    Returned =>
        \A d \in CashFlowIncreases :
            FxLeq(PriceFor([inputs EXCEPT !.desiredCashFlow = @ + d]), results.maxPurchasePrice)

\* a price accepted within the tolerance, which $9 more of cash flow leaves
\* as it is and $25 more lowers, and which $500 more makes infeasible
C24_Witness ==
    /\ Returned
    /\ ~NoSearchRan
    /\ ~IntervalCollapsed(search.low, search.high)
    /\ PriceFor([inputs EXCEPT !.desiredCashFlow = @ + 9]) = results.maxPurchasePrice
    /\ FxLess(PriceFor([inputs EXCEPT !.desiredCashFlow = @ + 25]), results.maxPurchasePrice)
    /\ PriceFor([inputs EXCEPT !.desiredCashFlow = @ + 500]) = FxZero

\* the sub-scores the three sub-score functions can return
RentScores == {25, 50, 75, 100}
CrimeScores == {10 * k : k \in 1..10}
DensityScores == {20, 40, 60, 80, 100}

\* C25: the composite score is non-decreasing in each sub-score although the
\* weights change with the sub-scores: raising one sub-score to any higher
\* reachable value, the other two equal, never lowers the composite score
C25_CompositeMonotone ==
    Scored =>
        LET r == ret.breakdown.fmrScore
            c == ret.breakdown.crimeScore
            d == ret.breakdown.densityScore
        IN  /\ r \in RentScores /\ c \in CrimeScores /\ d \in DensityScores
            /\ \A r2 \in RentScores : r2 > r => totalScore(r2, c, d) >= ret.score
            /\ \A c2 \in CrimeScores : c2 > c => totalScore(r, c2, d) >= ret.score
            /\ \A d2 \in DensityScores : d2 > d => totalScore(r, c, d2) >= ret.score

\* a crime sub-score at a weight breakpoint: one step up lowers its weight
\* from 18% to 15% and the composite score still rises
C25_Witness ==
    /\ Scored
    /\ ret.breakdown.fmrScore = 25
    /\ ret.breakdown.crimeScore = 70
    /\ ret.breakdown.densityScore = 100
    /\ calculateCrimeWeight(80) # calculateCrimeWeight(70)
    /\ totalScore(25, 80, 100) > ret.score

----------------------------------------------------------------------------
(* Properties of useZipCodeLookup *)

\* the location stored under a ZIP code's cache key, Null when none
CachedLocation(z) ==
    IF localStorage[getCacheKey("zipcode", z)] = NoItem THEN Null
    ELSE JSONparse(localStorage[getCacheKey("zipcode", z)]).data

\* the 'Unknown County' entry an earlier version may have left for a ZIP
EarlierUnknown(z) ==
    [zip |-> z, county |-> UnknownCounty, state |-> "Texas", population |-> Undefined]

\* C22: useZipCodeLookup never writes a location whose county is 'Unknown
\* County' to the cache and never serves one from the cache: what the hook
\* caches has a resolved county, so an 'Unknown County' entry in the cache
\* is one left from before; a location served from the cache has a resolved
\* county; and a lookup that finds a cached 'Unknown County' entry queries
\* the geocoder again
C22_NoUnknownCountyCached ==
    /\ (lookups.last.op = "resolved" /\ lookups.last.cached)
       => lookups.last.data.county # UnknownCounty
    /\ \A z \in LookupZips :
          (CachedLocation(z) # Null /\ CachedLocation(z).county = UnknownCounty)
          => /\ CachedLocation(z) = EarlierUnknown(z)
             /\ JSONparse(localStorage[getCacheKey("zipcode", z)]).timestamp = 0
    /\ lookups.last.op = "served"
       => (location = lookups.last.cached /\ location.county # UnknownCounty)
    /\ (lookups.last.op \in {"served", "queried"} /\ lookups.last.cached # Null
           /\ lookups.last.cached.county = UnknownCounty)
       => (lookups.last.op = "queried" /\ lookups.last.zipCode \in lookups.pending)

\* a lookup found an 'Unknown County' entry left from before and asked the
\* geocoder, while the hook had cached a resolved location for the other ZIP
C22_Witness ==
    /\ lookups.last.op = "queried"
    /\ lookups.last.cached # Null
    /\ lookups.last.cached.county = UnknownCounty
    /\ lookups.last.zipCode \in lookups.pending
    /\ \E z \in LookupZips :
          /\ CachedLocation(z) # Null
          /\ CachedLocation(z).county = <<"Collin", "County">>

\* the geocoders found no county: the location is shown and not cached
C22_WitnessUnresolved ==
    /\ lookups.last.op = "resolved"
    /\ lookups.last.data.county = UnknownCounty
    /\ location = lookups.last.data
    /\ ~lookups.last.cached
    /\ CachedLocation(lookups.last.zipCode) = Null

----------------------------------------------------------------------------
(* Properties of the search history *)

NoDuplicates(list) == \A i, j \in DOMAIN list : list[i] = list[j] => i = j

\* C26: after any sequence of searches the stored search history contains
\* no duplicate ZIP code, holds at most 10 entries, and has the most
\* recently searched ZIP first with the remaining entries in their previous
\* relative order
C26_HistoryRecentFirstNoDuplicates ==
    /\ NoDuplicates(searchHistory)
    /\ Len(searchHistory) <= 10
    /\ lastSearch.zipCode # ""
       => LET others == SelectSeq(lastSearch.before, LAMBDA z : z # lastSearch.zipCode)
          IN  /\ searchHistory # <<>>
              /\ Head(searchHistory) = lastSearch.zipCode
              /\ Len(Tail(searchHistory)) = (IF Len(others) < 9 THEN Len(others) ELSE 9)
              /\ \A i \in DOMAIN Tail(searchHistory) : Tail(searchHistory)[i] = others[i]

\* a new ZIP searched with ten in the history: the oldest is dropped
C26_Witness ==
    /\ Len(lastSearch.before) = 10
    /\ \A i \in DOMAIN lastSearch.before : lastSearch.before[i] # lastSearch.zipCode
    /\ Len(searchHistory) = 10
    /\ Head(searchHistory) = lastSearch.zipCode
    /\ searchHistory[10] = lastSearch.before[9]

\* a ZIP of the history searched again: it moves to the front
C26_WitnessRepeated ==
    /\ Len(lastSearch.before) = 10
    /\ lastSearch.before[4] = lastSearch.zipCode
    /\ Len(searchHistory) = 10
    /\ Head(searchHistory) = lastSearch.zipCode
    /\ searchHistory[4] = lastSearch.before[3]
    /\ searchHistory[5] = lastSearch.before[5]

----------------------------------------------------------------------------
(* useListingCounts as a state machine: mount, dependency changes, unmount, *)
(* manual refetches and the answers of IndexedDB, the scrape endpoint and   *)
(* the timers *)

Owners == 0..MaxEffectRuns
ScrapeAnswers == {"ok", "404", "error"}

otherThanListing ==
    <<scorerVars, pageVars, calcVars, cacheVars, watchVars, scrapeVars, lookups, historyVars,
      zipHook>>

InitListing ==
    /\ listings = ListingUnmounted
    /\ zipHook = HookMounted("useHUDData")
    /\ lookups = [pending |-> {}, last |-> [op |-> "none"]]
    /\ searchHistory = <<>>
    /\ lastSearch = [zipCode |-> "", before |-> <<>>]
    /\ searches = 0
    /\ ScorerPagesIdle
    /\ CalcIdle
    /\ CacheIdle
    /\ WatchIdle
    /\ ScrapeIdle

\* the component mounts: both effects run
Mount ==
    /\ ~listings.mounted
    /\ listings.controllers = <<>>
    /\ listings' = RunEffects(listings)
    /\ UNCHANGED otherThanListing

\* metroAreas or moaSettings change: cleanup, then both effects
DependencyChange ==
    /\ listings.mounted
    /\ Len(listings.controllers) < MaxEffectRuns
    /\ listings' = RunEffects(Cleanup(listings))
    /\ UNCHANGED otherThanListing

Unmount ==
    /\ listings.mounted
    /\ listings' = [Cleanup(listings) EXCEPT !.mounted = FALSE]
    /\ UNCHANGED otherThanListing

\* refetch(metroAreaName)
refetch(metroAreaName) ==
    /\ listings.mounted
    /\ listings.refetches < MaxRefetches
    /\ listings.tasks[0] = NoTask
    /\ listings' = StartTask([listings EXCEPT !.refetches = @ + 1], 0, metroAreaName)
    /\ UNCHANGED otherThanListing

CacheAnswers(owner) ==
    /\ listings.tasks[owner].pc = "cacheCheck"
    /\ listings' = CacheAnswered(listings, owner)
    /\ UNCHANGED otherThanListing

FetchAnswers(owner, resp) ==
    /\ listings.tasks[owner].pc = "fetching"
    /\ listings' = FetchAnswered(listings, owner, resp)
    /\ UNCHANGED otherThanListing

\* the 30 seconds after every second ZIP are over
RateLimitElapsed(owner) ==
    /\ listings.tasks[owner].pc = "waiting"
    /\ listings' = LoopHead(listings, owner, listings.tasks[owner].i + 1)
    /\ UNCHANGED otherThanListing

CacheWrites(owner) ==
    /\ listings.tasks[owner].pc = "caching"
    /\ listings' = CacheWritten(listings, owner)
    /\ UNCHANGED otherThanListing

\* the 30 seconds between two metros of a queue run are over
QueueWaitElapsed(g) ==
    /\ listings.queueRuns[g].st = "wait"
    /\ listings' = QueueNext(listings, g, listings.queueRuns[g].pos + 1)
    /\ UNCHANGED otherThanListing

NextListing ==
    \/ Mount
    \/ DependencyChange
    \/ Unmount
    \/ \E k \in DOMAIN MetroNames : refetch(MetroNames[k])
    \/ \E owner \in Owners : CacheAnswers(owner)
    \/ \E owner \in Owners, resp \in ScrapeAnswers : FetchAnswers(owner, resp)
    \/ \E owner \in Owners : RateLimitElapsed(owner)
    \/ \E owner \in Owners : CacheWrites(owner)
    \/ \E g \in 1..MaxEffectRuns : QueueWaitElapsed(g)

SpecListing == InitListing /\ [][NextListing]_vars

\* the call of fetchListingForMetro by this owner ends in this step
Ends(owner) ==
    /\ listings.tasks[owner] # NoTask
    /\ \/ listings'.tasks[owner] = NoTask
       \/ listings'.tasks[owner].pc = "cacheCheck"

\* C23: a call of fetchListingForMetro that got a 404 from the scrape
\* endpoint ends with the metro in status 'error' carrying the 'Netlify
\* function not deployed' message: it is not marked 'fresh' and no count is
\* written to the listing cache.
C23_NotDeployedIsAnError ==
    [][\A owner \in Owners :
          (Ends(owner) /\ listings.tasks[owner].saw404 /\ listings.tasks[owner].pc = "caching") =>
              /\ listings'.listingCache = listings.listingCache
              /\ listings.mounted =>
                    LET shown == listings'.listingCounts[listings.tasks[owner].metro]
                    IN  shown.status = "error" /\ shown.error = NotDeployed]_vars

\* progress.loaded === progress.total && progress.total > 0
isComplete(h) == h.progress.loaded = h.progress.total /\ h.progress.total > 0

\* C28: progress.loaded never exceeds progress.total, and once isComplete is
\* true it stays true until the metro list or the settings change (a new run
\* of the effects).
C28_LoadedWithinTotal ==
    /\ [](listings.progress.loaded <= listings.progress.total)
    /\ [][isComplete(listings) =>
            \/ isComplete(listings')
            \/ Len(listings'.controllers) > Len(listings.controllers)]_vars

\* C29: a run that the cleanup has aborted writes nothing more to the
\* listing cache and updates listingCounts and progress no more, and no
\* count summed over only part of a metro's ZIP codes is cached or shown as
\* 'fresh'.
C29_AbortedRunIsSilent ==
    [][\A g \in 1..Len(listings.controllers) :
          (listings.controllers[g] /\ listings'.tasks[g] # listings.tasks[g]) =>
              /\ listings'.listingCache = listings.listingCache
              /\ listings'.listingCounts = listings.listingCounts
              /\ listings'.progress = listings.progress
              /\ listings.tasks[g].pc = "caching" =>
                    listings.tasks[g].i > Len(ZipCodesOf(listings.tasks[g].metro))]_vars

----------------------------------------------------------------------------
(* A per-ZIP fetch hook as a state machine: the ZIP code changes, requests  *)
(* are answered in any order *)

otherThanZipHook ==
    <<scorerVars, pageVars, calcVars, cacheVars, watchVars, scrapeVars, lookups, historyVars,
      listings>>

InitZipHook ==
    /\ \E hook \in HookNames : zipHook = HookMounted(hook)
    /\ listings = ListingUnmounted
    /\ lookups = [pending |-> {}, last |-> [op |-> "none"]]
    /\ searchHistory = <<>>
    /\ lastSearch = [zipCode |-> "", before |-> <<>>]
    /\ searches = 0
    /\ ScorerPagesIdle
    /\ CalcIdle
    /\ CacheIdle
    /\ WatchIdle
    /\ ScrapeIdle

\* the component renders with another ZIP code: the effect calls fetchData
ZipChanges(zipCode) ==
    /\ zipCode # zipHook.zipCode
    /\ zipHook.changes < MaxZipChanges
    /\ zipHook' = fetchData([zipHook EXCEPT !.changes = @ + 1], zipCode)
    /\ UNCHANGED otherThanZipHook

\* a request is answered
Responds(zipCode, ok) ==
    /\ zipHook.pending[zipCode] > 0
    /\ zipHook' = fetchDataResumed(zipHook, zipCode, ok)
    /\ UNCHANGED otherThanZipHook

NextZipHook ==
    \/ \E zipCode \in HookZips \cup {""} : ZipChanges(zipCode)
    \/ \E zipCode \in HookZips, ok \in BOOLEAN : Responds(zipCode, ok)

SpecZipHook == InitZipHook /\ [][NextZipHook]_vars

NoRequestOutstanding == \A z \in HookZips : zipHook.pending[z] = 0

\* C27: once every request has been answered the hook's data belongs to the
\* ZIP code requested last: a late answer for an earlier ZIP code has not
\* overwritten it, and the analysis result pairs no ZIP code with data
\* fetched for another.
C27_DataBelongsToCurrentZip ==
    (NoRequestOutstanding /\ zipHook.zipCode \in HookZips) =>
        /\ zipHook.data # Null => zipHook.data.zipCode = zipHook.zipCode
        /\ currentResult(zipHook) # Null =>
              currentResult(zipHook).fmrData.zipCode = currentResult(zipHook).zipCode

----------------------------------------------------------------------------
(* clearExpiredCache over a localStorage that holds cache entries next to   *)
(* the lists of useLocalStorage and a text that is not JSON *)

OtherKeys == {"search_history", "saved_searches", "theme"}

\* what the other keys hold: a JSON array or nothing, a JSON array or the
\* JSON text null, a text that does not parse
OtherValues(key) ==
    IF key = "search_history" THEN {NoItem, [t |-> "json", array |-> <<"75001">>]}
    ELSE IF key = "saved_searches"
    THEN {[t |-> "json", array |-> <<"75001">>], [t |-> "json", null |-> TRUE]}
    ELSE {[t |-> "text", text |-> "dark"]}

InitClear ==
    /\ \E history \in OtherValues("search_history"), saved \in OtherValues("saved_searches"),
          theme \in OtherValues("theme") :
          localStorage = [k \in CacheKeys \cup OtherKeys |->
                             IF k \in CacheKeys THEN NoItem
                             ELSE IF k = "search_history" THEN history
                             ELSE IF k = "saved_searches" THEN saved
                             ELSE theme]
    /\ now = 0
    /\ got = [key |-> "", ret |-> Pending]
    /\ CalcIdle
    /\ WatchIdle
    /\ ScrapeIdle
    /\ ScorerPagesIdle
    /\ HooksIdle

\* SearchPage mounts: its effect calls clearExpiredCache, which logs how
\* many entries it removed
ClearExpired ==
    /\ localStorage' = clearExpiredCache(localStorage, now)
    /\ got' = [key |-> "", ret |-> [t |-> "cleared"],
               removed |-> Cardinality({key \in DOMAIN localStorage :
                                           localStorage'[key] # localStorage[key]})]
    /\ UNCHANGED <<now, otherThanCache>>

NextClear ==
    \/ \E k \in CacheKeys : \E stored \in BOOLEAN : WriteCache(k, [zip_code |-> "75001"], stored)
    \/ \E d \in {1, CACHE_DURATION_DAYS} : TimePasses(d)
    \/ ClearExpired

SpecClear == InitClear /\ [][NextClear]_vars

\* the stored text parses as JSON with an expiresAt earlier than t
ParsesWithEarlierExpiry(value, t) ==
    /\ value # NoItem
    /\ value.t = "json"
    /\ "expiresAt" \in DOMAIN value
    /\ value.expiresAt < t

\* C30: clearExpiredCache removes exactly the entries that parse as JSON
\* with an expiresAt earlier than now, and leaves every other entry as it
\* was: the unexpired cache entries, the entries without an expiresAt field
\* and the entries that do not parse.
C30_ClearsExactlyTheExpired ==
    [][got'.ret = [t |-> "cleared"] =>
          \A key \in DOMAIN localStorage :
              localStorage'[key] =
                  IF ParsesWithEarlierExpiry(localStorage[key], now) THEN NoItem
                  ELSE localStorage[key]]_vars

\* an expired entry was removed while an unexpired one, a list without
\* expiresAt and a text that is not JSON stayed
C30_Witness ==
    /\ got.ret = [t |-> "cleared"]
    /\ got.removed = 1
    /\ \E key \in CacheKeys : localStorage[key] # NoItem
    /\ localStorage["search_history"] = [t |-> "json", array |-> <<"75001">>]
    /\ localStorage["theme"] = [t |-> "text", text |-> "dark"]

====
